---- MODULE Spec2Model ----
(***************************************************************************)
(* Model of useless-operator's Prometheus detectors:                       *)
(*   GetUnusedResources            (pkg/prometheus, two-label metrics)     *)
(*   IngressMap.GetUnusedIngresses (pkg/prometheus, four-label metrics)    *)
(* as main() runs them: the pod detector first, then the ingress detector. *)
(*                                                                         *)
(* Texts are sequences of one-character strings, so that the positional    *)
(* and by-name label extraction of the source is computed on the text      *)
(* the Prometheus client renders, not assumed.                             *)
(***************************************************************************)
EXTENDS Integers, Sequences, FiniteSets, TLC

----------------------------------------------------------------------------
(* Bounds of the model *)

\* largest value of the --period flag (maxSteps) explored
MaxSteps == 3
\* largest number of samples in one query result
MaxRows == 2
\* number of distinct label sets (entities) a query result draws from
NumMetrics == 3
\* largest maxSteps of two runs whose steps interleave
InterleavedSteps == 2
\* largest maxSteps of a run against a server that attaches warnings
WarningSteps == 2

----------------------------------------------------------------------------
(* Go strings: the operations of package strings the source uses *)

\* the value a slice expression with bad bounds stands for: a run-time panic
Panic == <<"PANIC">>

IsPanic(s) == s = Panic

\* s[lo:hi] of Go, 0-based, half-open; out-of-range bounds panic
Slice(s, lo, hi) ==
    IF IsPanic(s) \/ lo < 0 \/ hi > Len(s) \/ lo > hi
    THEN Panic
    ELSE SubSeq(s, lo + 1, hi)

\* sub occurs in s at 0-based position i
OccursAt(s, sub, i) ==
    /\ i >= 0
    /\ i + Len(sub) <= Len(s)
    /\ SubSeq(s, i + 1, i + Len(sub)) = sub

\* strings.Index: position of the first occurrence, -1 when there is none
Index(s, sub) ==
    LET hits == {i \in 0..Len(s) : OccursAt(s, sub, i)}
    IN  IF hits = {} THEN -1 ELSE CHOOSE i \in hits : \A j \in hits : i <= j

\* strings.LastIndex: position of the last occurrence, -1 when there is none
LastIndex(s, sub) ==
    LET hits == {i \in 0..Len(s) : OccursAt(s, sub, i)}
    IN  IF hits = {} THEN -1 ELSE CHOOSE i \in hits : \A j \in hits : i >= j

\* strings.Split with a non-empty separator: always at least one piece
RECURSIVE Split(_, _)
Split(s, sep) ==
    LET i == Index(s, sep)
    IN  IF i = -1
        THEN <<s>>
        ELSE <<SubSeq(s, 1, i)>> \o Split(SubSeq(s, i + Len(sep) + 1, Len(s)), sep)

\* strings.Join
RECURSIVE Join(_, _)
Join(parts, sep) ==
    IF parts = <<>> THEN <<>>
    ELSE IF Len(parts) = 1 THEN parts[1]
    ELSE parts[1] \o sep \o Join(Tail(parts), sep)

----------------------------------------------------------------------------
(* Literals of the source and of the rendered query result *)

NL == <<"\n">>
Arrow == <<" ", "=", ">", " ">>
EmptyBraces == <<"{", "}">>
EqQuote == <<"=", "\"">>
QuoteBrace == <<"\"", "}">>
QuoteComma == <<"\"", ",">>
Quote == <<"\"">>

L_namespace == <<"n","a","m","e","s","p","a","c","e">>
L_pod_name == <<"p","o","d","_","n","a","m","e">>
L_exported_namespace == <<"e","x","p","o","r","t","e","d","_">> \o L_namespace
L_ingress == <<"i","n","g","r","e","s","s">>
L_host == <<"h","o","s","t">>
L_path == <<"p","a","t","h">>

----------------------------------------------------------------------------
(* The query result: a vector of samples, one per label set *)

\* label values of the entities a result may name (one row per entity)
MetricTable ==
    << [ns |-> <<"a">>, ing |-> <<"i">>, host |-> <<"h">>, path |-> <<"/">>],
       [ns |-> <<"a">>, ing |-> <<"i">>, host |-> <<"h">>, path |-> <<"/","x">>],
       [ns |-> <<"b">>, ing |-> <<"j">>, host |-> <<"g">>, path |-> <<"/">>],
       [ns |-> <<"a">>, ing |-> <<"j">>, host |-> <<"h">>, path |-> <<"/">>],
       [ns |-> <<"a">>, ing |-> <<"i">>, host |-> <<"g">>, path |-> <<"/">>],
       [ns |-> <<"c">>, ing |-> <<"i">>, host |-> <<"h">>, path |-> <<"/">>] >>

\* 0 is the sample with the empty label set, rendered {}
NoLabels == 0

Metrics == 1..NumMetrics

Rows == Metrics \cup {NoLabels}

\* the name of the entity as one component: what `by (namespace, pod_name)`
\* groups on when the same entities are seen by the two-label query
FlatName(e) ==
    MetricTable[e].ing \o <<".">> \o MetricTable[e].host \o <<".">> \o MetricTable[e].path

\* label sets of entity e under the detectors' two queries, as
\* <<name, value>> pairs in the sorted order model.Metric.String() prints
PodLabels(e) ==
    IF e = NoLabels THEN <<>>
    ELSE << <<L_namespace, MetricTable[e].ns>>, <<L_pod_name, FlatName(e)>> >>

IngressLabels(e) ==
    IF e = NoLabels THEN <<>>
    ELSE << <<L_exported_namespace, MetricTable[e].ns>>,
            <<L_host, MetricTable[e].host>>,
            <<L_ingress, MetricTable[e].ing>>,
            <<L_path, MetricTable[e].path>> >>

\* model.Metric.String(): {l1="v1", l2="v2"}, or {} without labels
MetricString(labels) ==
    IF labels = <<>> THEN EmptyBraces
    ELSE <<"{">>
         \o Join([i \in 1..Len(labels) |->
                    labels[i][1] \o EqQuote \o labels[i][2] \o Quote], <<",", " ">>)
         \o <<"}">>

\* model.Sample.String(): <metric> => <value> @[<timestamp>]
SampleString(labels) == MetricString(labels) \o Arrow \o <<"0", " ", "@", "[", "0", "]">>

\* model.Vector.String(): the samples' lines joined by newlines, "" when empty
VectorString(labelSets) ==
    Join([i \in 1..Len(labelSets) |-> SampleString(labelSets[i])], NL)

----------------------------------------------------------------------------
(* Maps of the source *)

\* map[Namespace]map[Element]string: a function from namespaces to functions
EmptyMap == <<>>

\* value stored for every element by GetUnusedResources (the deployment "")
NoDeployment == <<>>

MapAdd(m, ns, elem, deployment) ==
    LET mm == IF ns \in DOMAIN m THEN m[ns] ELSE EmptyMap
        mm2 == [e \in DOMAIN mm \cup {elem} |-> IF e = elem THEN deployment ELSE mm[e]]
    IN  [n \in DOMAIN m \cup {ns} |-> IF n = ns THEN mm2 ELSE m[n]]

\* IngressBackend{"", intstr.IntOrString{}}
EmptyBackend == [ServiceName |-> <<>>, ServicePort |-> <<>>]

\* a Go map that may be nil: isNil, and its entries kv (none when nil)
NilMap == [isNil |-> TRUE, kv |-> EmptyMap]

MakeMap(kv) == [isNil |-> FALSE, kv |-> kv]

\* IngressMap.M is map[IngNamespace]map[Ingress]map[Host]map[Path]IngressBackend;
\* M and M[ns] can be nil, the deeper maps are always made
AddIntoIngMap(M, ns, ing, host, path) ==
    LET M1 == IF M.isNil THEN MakeMap(EmptyMap) ELSE M
    IN  IF ns \in DOMAIN M1.kv
        THEN M1
        ELSE MakeMap([n \in DOMAIN M1.kv \cup {ns} |->
                        IF n = ns
                        THEN MakeMap(ing :> (host :> (path :> EmptyBackend)))
                        ELSE M1.kv[n]])

\* the key tuples a two-level map holds
ResourceKeys(m) ==
    UNION {{<<ns, r>> : r \in DOMAIN m[ns]} : ns \in DOMAIN m}

\* the key tuples a four-level map holds (none under a nil map)
IngressKeys(M) ==
    IF M.isNil THEN {}
    ELSE UNION {IF M.kv[ns].isNil THEN {}
                ELSE UNION {UNION {{<<ns, ing, host, path>> :
                                      path \in DOMAIN M.kv[ns].kv[ing][host]} :
                                   host \in DOMAIN M.kv[ns].kv[ing]} :
                            ing \in DOMAIN M.kv[ns].kv} :
                ns \in DOMAIN M.kv}

----------------------------------------------------------------------------
(* Parsing one step's lines *)

\* a test that takes no line for an empty result
IsEmptyResultNever(c0) == FALSE

\* `if cut[0] == "{}" { continue }` (lines 155 and 250)
IsEmptyResult(c0) == c0 = EmptyBraces

\* lines 150-172 of GetUnusedResources for one line: skip {}, else the two
\* values by position (first =" to last ", and last =" to last "})
ParseResourceRow(str) ==
    LET cut == Split(str, Arrow)
        c0 == cut[1]
        resStartPos == LastIndex(c0, EqQuote)
        resEndPos == LastIndex(c0, QuoteBrace)
        namespaceStartPos == Index(c0, EqQuote)
        namespaceEndPos == LastIndex(c0, QuoteComma)
        namespace == Slice(c0, namespaceStartPos + 2, namespaceEndPos)
        res == Slice(c0, resStartPos + 2, resEndPos)
    IN  IF IsEmptyResult(c0)
        THEN [skip |-> TRUE, panic |-> FALSE, key |-> <<>>]
        ELSE [skip |-> FALSE,
              panic |-> IsPanic(namespace) \/ IsPanic(res),
              key |-> <<namespace, res>>]

GetLabelVal(str, label) ==
    IF label = <<>> THEN <<>>
    ELSE LET labelStartPos == Index(str, label)
             valueStartPos == labelStartPos + Len(label) + 2
             rest == Slice(str, valueStartPos, Len(str))
             valueEndPos == valueStartPos + Index(rest, Quote)
         IN  IF IsPanic(rest) THEN Panic
             ELSE Slice(str, valueStartPos, valueEndPos)

\* lines 245-264 of GetUnusedIngresses for one line
ParseIngressRow(str) ==
    LET cut == Split(str, Arrow)
        namespace == GetLabelVal(str, L_exported_namespace)
        ingress == GetLabelVal(str, L_ingress)
        host == GetLabelVal(str, L_host)
        path == GetLabelVal(str, L_path)
    IN  IF IsEmptyResult(cut[1])
        THEN [skip |-> TRUE, panic |-> FALSE, key |-> <<>>]
        ELSE [skip |-> FALSE,
              panic |-> IsPanic(namespace) \/ IsPanic(ingress)
                        \/ IsPanic(host) \/ IsPanic(path),
              key |-> <<namespace, ingress, host, path>>]

\* the loop over strs filling tempMap; panic when a line's slicing panics
RECURSIVE ParseResourceRows(_, _)
ParseResourceRows(strs, tempMap) ==
    IF strs = <<>> THEN [panic |-> FALSE, m |-> tempMap]
    ELSE LET r == ParseResourceRow(Head(strs))
         IN  IF r.skip THEN ParseResourceRows(Tail(strs), tempMap)
             ELSE IF r.panic THEN [panic |-> TRUE, m |-> tempMap]
             ELSE ParseResourceRows(Tail(strs),
                                    MapAdd(tempMap, r.key[1], r.key[2], NoDeployment))

RECURSIVE ParseIngressRows(_, _)
ParseIngressRows(strs, tempMap) ==
    IF strs = <<>> THEN [panic |-> FALSE, m |-> tempMap]
    ELSE LET r == ParseIngressRow(Head(strs))
         IN  IF r.skip THEN ParseIngressRows(Tail(strs), tempMap)
             ELSE IF r.panic THEN [panic |-> TRUE, m |-> tempMap]
             ELSE ParseIngressRows(Tail(strs),
                      AddIntoIngMap(tempMap, r.key[1], r.key[2], r.key[3], r.key[4]))

----------------------------------------------------------------------------
(* The steps of the two detectors *)

\* a length test that lets the single empty line of an empty result through
NoDataOnlyEmpty(strs) == Len(strs) < 1

\* `len(strs) < 2`: the step is taken to carry no data and the loop breaks
NoData(strs) == Len(strs) < 2

\* the assignment moved after the length test: a step that breaks is not counted
ObservedOnlyWithData(step, strs, observedPeriod) ==
    IF Len(strs) < 2 THEN observedPeriod ELSE step + 1

\* `observedPeriod = step + 1`, assigned before the length test
ObservedAfter(step, strs, observedPeriod) == step + 1

\* the error return handing back the period reached so far
ErrorPeriodPartial(observedPeriod) == observedPeriod

\* the period returned with a query error: `return ..., 0, err`
ErrorPeriod(observedPeriod) == 0

\* the seeding without its guard: every step replaces the map by its sample
SeedStepAlways(step) == TRUE

\* `if step == 0 { resultMap = tempMap }`
SeedStep(step) == step = 0

\* `if step == 0 || resultMap.M == nil { *resultMap = tempMap }`
SeedIngressStep(step, M) == step = 0 \/ M.isNil

\* lines 180-193: delete from resultMap what tempMap does not hold; the
\* namespace keys stay, also when their inner map becomes empty
NarrowResources(resultMap, tempMap) ==
    [ns \in DOMAIN resultMap |->
        [res \in {r \in DOMAIN resultMap[ns] :
                    ns \in DOMAIN tempMap /\ r \in DOMAIN tempMap[ns]}
            |-> resultMap[ns][res]]]

\* lines 272-308: a namespace missing from tempMap is set to nil, a missing
\* ingress is deleted, the host test repeats the ingress test (so no host
\* key is ever deleted), a missing path is deleted
NarrowIngresses(M, T) ==
    IF M.isNil THEN M
    ELSE MakeMap(
      [ns \in DOMAIN M.kv |->
        IF ~(ns \in DOMAIN T.kv) THEN NilMap
        ELSE IF M.kv[ns].isNil THEN M.kv[ns]
        ELSE LET ingMap == M.kv[ns].kv
                 tIng == T.kv[ns].kv
             IN  MakeMap(
                   [ing \in {i \in DOMAIN ingMap : i \in DOMAIN tIng} |->
                     [host \in {h \in DOMAIN ingMap[ing] : ing \in DOMAIN tIng} |->
                       [path \in {q \in DOMAIN ingMap[ing][host] :
                                    /\ host \in DOMAIN tIng[ing]
                                    /\ q \in DOMAIN tIng[ing][host]}
                          |-> ingMap[ing][host][path]]]])])

\* the error values a query can return; "nil" is no error
NoErr == "nil"
Errors == {"refused", "timeout"}

\* what the Prometheus server answers to one query: an error, or a vector
\* of at most MaxRows samples with pairwise different label sets
Outcomes ==
    {[err |-> e, rows |-> {}, warnings |-> FALSE, repeat |-> FALSE] : e \in Errors}
    \cup {[err |-> NoErr, rows |-> S, warnings |-> FALSE, repeat |-> FALSE] :
            S \in {T \in SUBSET Rows : Cardinality(T) <= MaxRows}}

\* the same answers with warnings attached (`len(warnings) > 0`)
WarnedOutcomes == {[o EXCEPT !.warnings = TRUE] : o \in Outcomes}

\* a test that takes warnings for a failure of the query
QueryFailedOrWarned(err, warnings) == err # NoErr \/ warnings

\* `if err != nil { return ... }`; warnings are only logged (lines 131-133)
QueryFailed(err, warnings) == err # NoErr

\* the orders in which the server may list the samples of a vector
Orderings(S) ==
    {v \in [1..Cardinality(S) -> S] : \A i, j \in 1..Cardinality(S) : i # j => v[i] # v[j]}

\* the answers of an endpoint that lists the sample {} twice: the client
\* decodes any array of samples, distinct label sets or not
RepeatedOutcomes ==
    {[o EXCEPT !.repeat = TRUE] : o \in {x \in Outcomes : NoLabels \in x.rows}}

\* the vector v with one more sample {} at some place
WithRepeat(v) ==
    {[i \in 1..(Len(v) + 1) |->
        IF i < k THEN v[i] ELSE IF i = k THEN NoLabels ELSE v[i - 1]] :
     k \in 1..(Len(v) + 1)}

\* the vectors that result of an answer can be
ResultVectors(rows, repeat) ==
    IF repeat THEN UNION {WithRepeat(v) : v \in Orderings(rows)}
    ELSE Orderings(rows)

Vectors ==
    UNION {ResultVectors(o.rows, o.repeat) : o \in Outcomes \cup RepeatedOutcomes}

\* lines 137-172 of GetUnusedResources on the vector v: result.String(),
\* the split into lines, and the map parsed from the lines
ResourceLines(v) ==
    LET strs == Split(VectorString([i \in 1..Len(v) |-> PodLabels(v[i])]), NL)
    IN  [strs |-> strs, temp |-> ParseResourceRows(strs, EmptyMap)]

\* lines 232-264 of GetUnusedIngresses on the vector v
IngressLines(v) ==
    LET strs == Split(VectorString([i \in 1..Len(v) |-> IngressLabels(v[i])]), NL)
    IN  [strs |-> strs, temp |-> ParseIngressRows(strs, NilMap)]

ResourceLinesOf == [v \in Vectors |-> ResourceLines(v)] @@ <<>>
IngressLinesOf == [v \in Vectors |-> IngressLines(v)] @@ <<>>

\* an offset that is not moved back with the step: every query asks for now
QueryOffsetNow(step) == 0

\* `time.Now().Add(-1 * time.Duration(step) * time.Hour)`: hours before now
QueryOffset(step) == step

\* `ctx, cancel := context.WithTimeout(...)` then v1api.Query: the error
\* return comes before `cancel()`, so the context of a failed query stays held
HeldAfterQuery(heldSteps, step, err) ==
    IF err # NoErr THEN heldSteps \cup {step} ELSE heldSteps

Detectors == {"res", "ing"}

VARIABLES
    maxSteps,        \* the --period flag, passed to both detectors
    outcomes,        \* outcomes[n+1]: the server's answer for the offset of n hours
    pc,              \* pc[d]: where detector d is
    step,            \* step[d]: the loop variable
    observedPeriod,  \* observedPeriod[d]: the local variable
    result,          \* result[d]: the samples of the vector being processed
    queries,         \* queries[d]: number of queries issued so far
    resultMap,       \* resultMap of GetUnusedResources
    IngressMap,      \* main's IngressMap, the receiver of GetUnusedIngresses
    promPodsMap,     \* what GetUnusedResources returned to main
    ingReturn,       \* what GetUnusedIngresses returned to main
    held,            \* held[d]: steps whose query context was not cancelled
    offsets,         \* offsets[d]: the offsets (hours before now) queried so far
    cancelRequested, \* the caller has asked for the run to stop
    stepLines,       \* a step's lines as the server composed them
    stepParse,       \* what the parsing loop made of stepLines
    mainPc,          \* where main is in its two reports
    podsLeft,        \* pods of promPodsMap the range has not visited yet
    pathsLeft,       \* paths of IngressMap.M the range has not visited yet
    UselessPodsCnt,  \* main's counter, shared by the two reports
    allPodsCpu,      \* main's CPU total (milli)
    allPodsMem,      \* main's memory total (bytes)
    lookups,         \* the cluster lookups made so far and their results
    podSummary,      \* the summary lines of the pod report
    ingSummary,      \* the summary lines of the ingress report
    serverWarns,     \* the Prometheus server attaches warnings to its answers
    serverRepeats,   \* the endpoint may list the sample {} twice in a vector
    visit,           \* the narrowing loops' position when followed entry by entry
    promAddr,        \* the --prom-uri flag
    bootPc,          \* where main is before its first query
    attempts,        \* results of GetKClient's node listings so far
    gotNodes,        \* GetKClient's flag
    clientErr,       \* GetKClient's outer err, the one it returns
    kubeCall,        \* a cluster lookup called on its own: function, arguments, object
    kubeRet          \* what that lookup returned

parserVars == <<stepLines, stepParse>>

reportVars == <<mainPc, podsLeft, pathsLeft, UselessPodsCnt, allPodsCpu, allPodsMem,
                lookups, podSummary, ingSummary>>

startupVars == <<promAddr, bootPc, attempts, gotNodes, clientErr>>

kubeVars == <<kubeCall, kubeRet>>

vars == <<maxSteps, outcomes, pc, step, observedPeriod, result, queries,
          resultMap, IngressMap, promPodsMap, ingReturn, held, offsets,
          cancelRequested, parserVars, reportVars, serverWarns, serverRepeats,
          visit, startupVars, kubeVars>>

NotReturned == [returned |-> FALSE, observedPeriod |-> 0, err |-> NoErr]

\* nothing parsed on its own, main not in its reports, no cancellation asked
NotParsed == [done |-> FALSE]

NotEmitted == [emitted |-> FALSE]

\* the narrowing loops not followed entry by entry, main past its startup
NotVisiting == [d |-> "none"]

StartupIdle ==
    /\ promAddr = <<>>
    /\ bootPc = "idle"
    /\ attempts = <<>>
    /\ gotNodes = FALSE
    /\ clientErr = NoErr

\* no cluster lookup called on its own
NoCall == [fn |-> "none"]

NotCalled == [done |-> FALSE]

KubeIdle ==
    /\ kubeCall = NoCall
    /\ kubeRet = NotCalled

NoLines == [d |-> "none", rows |-> <<>>]

ParserIdle ==
    /\ stepLines = NoLines
    /\ stepParse = NotParsed

ReportIdle ==
    /\ mainPc = "idle"
    /\ podsLeft = {}
    /\ pathsLeft = {}
    /\ UselessPodsCnt = 0
    /\ allPodsCpu = 0
    /\ allPodsMem = 0
    /\ lookups = <<>>
    /\ podSummary = NotEmitted
    /\ ingSummary = NotEmitted


Init ==
    /\ maxSteps \in -1..MaxSteps
    /\ outcomes = <<>>
    /\ pc = [d \in Detectors |-> IF d = "res" THEN "loop" ELSE "wait"]
    /\ step = [d \in Detectors |-> 0]
    /\ observedPeriod = [d \in Detectors |-> 0]
    /\ result = [d \in Detectors |-> {}]
    /\ queries = [d \in Detectors |-> 0]
    /\ resultMap = EmptyMap
    /\ IngressMap = NilMap
    /\ promPodsMap = [returned |-> FALSE, map |-> EmptyMap,
                      observedPeriod |-> 0, err |-> NoErr]
    /\ ingReturn = NotReturned
    /\ held = [d \in Detectors |-> {}]
    /\ offsets = [d \in Detectors |-> <<>>]
    /\ cancelRequested = FALSE
    /\ serverWarns = FALSE
    /\ serverRepeats = FALSE
    /\ visit = NotVisiting
    /\ StartupIdle
    /\ KubeIdle
    /\ ParserIdle
    /\ ReportIdle

\* the answer to the query of detector d at its current step: the one the
\* server already gave for this offset, or any outcome for a new offset
Answers(d) ==
    IF Len(outcomes) > step[d] THEN {outcomes[step[d] + 1]}
    ELSE IF serverWarns THEN Outcomes \cup WarnedOutcomes
    ELSE IF serverRepeats THEN Outcomes \cup RepeatedOutcomes
    ELSE Outcomes

Record(d, o) ==
    IF Len(outcomes) > step[d] THEN outcomes ELSE Append(outcomes, o)

\* lines 120-135: the loop test and v1api.Query; an error returns at once
GetUnusedResourcesQuery ==
    /\ pc["res"] = "loop"
    /\ step["res"] < maxSteps
    /\ \E o \in Answers("res") :
         /\ outcomes' = Record("res", o)
         /\ queries' = [queries EXCEPT !["res"] = @ + 1]
         /\ offsets' = [offsets EXCEPT !["res"] = Append(@, QueryOffset(step["res"]))]
         /\ held' = [held EXCEPT !["res"] = HeldAfterQuery(@, step["res"], o.err)]
         /\ IF QueryFailed(o.err, o.warnings)
            THEN /\ promPodsMap' = [returned |-> TRUE, map |-> EmptyMap,
                                    observedPeriod |-> ErrorPeriod(observedPeriod["res"]),
                                    err |-> o.err]
                 /\ pc' = [pc EXCEPT !["res"] = "done"]
                 /\ UNCHANGED result
            ELSE /\ result' = [result EXCEPT !["res"] = o.rows]
                 /\ pc' = [pc EXCEPT !["res"] = "process"]
                 /\ UNCHANGED promPodsMap
    /\ UNCHANGED <<maxSteps, step, observedPeriod, resultMap, IngressMap, ingReturn>>
    /\ UNCHANGED <<cancelRequested, parserVars, reportVars>>
    /\ UNCHANGED <<serverWarns, serverRepeats, visit, startupVars, kubeVars>>

\* lines 137-195: split, observedPeriod, break or parse, seed and narrow
GetUnusedResourcesProcess ==
    /\ pc["res"] = "process"
    /\ \E v \in ResultVectors(result["res"], outcomes[step["res"] + 1].repeat) :
       LET lines == ResourceLinesOf[v]
           seeded == IF SeedStep(step["res"]) THEN lines.temp.m ELSE resultMap
       IN  /\ observedPeriod' = [observedPeriod EXCEPT !["res"] =
                                   ObservedAfter(step["res"], lines.strs, @)]
           /\ IF NoData(lines.strs)
              THEN /\ pc' = [pc EXCEPT !["res"] = "break"]
                   /\ UNCHANGED <<step, resultMap>>
              ELSE IF lines.temp.panic
              THEN /\ pc' = [pc EXCEPT !["res"] = "panic"]
                   /\ UNCHANGED <<step, resultMap>>
              ELSE /\ resultMap' = IF step["res"] = 0 THEN seeded
                                   ELSE NarrowResources(seeded, lines.temp.m)
                   /\ step' = [step EXCEPT !["res"] = @ + 1]
                   /\ pc' = [pc EXCEPT !["res"] = "loop"]
    /\ result' = [result EXCEPT !["res"] = {}]
    /\ UNCHANGED <<maxSteps, outcomes, queries, IngressMap, promPodsMap, ingReturn>>
    /\ UNCHANGED <<held, offsets, cancelRequested, parserVars, reportVars>>
    /\ UNCHANGED <<serverWarns, serverRepeats, visit, startupVars, kubeVars>>

\* the return reading a period counter that the two detectors would share
GetUnusedResourcesReturnSharedPeriod ==
    /\ \/ pc["res"] = "break"
       \/ pc["res"] = "loop" /\ step["res"] >= maxSteps
    /\ promPodsMap' = [returned |-> TRUE, map |-> resultMap,
                       observedPeriod |-> observedPeriod["ing"], err |-> NoErr]
    /\ pc' = [pc EXCEPT !["res"] = "done"]
    /\ UNCHANGED <<maxSteps, outcomes, step, observedPeriod, result, queries,
                   resultMap, IngressMap, ingReturn>>
    /\ UNCHANGED <<held, offsets, cancelRequested, parserVars, reportVars>>
    /\ UNCHANGED <<serverWarns, serverRepeats, visit, startupVars, kubeVars>>

\* line 197, after the break or the last step
GetUnusedResourcesReturn ==
    /\ \/ pc["res"] = "break"
       \/ pc["res"] = "loop" /\ step["res"] >= maxSteps
    /\ promPodsMap' = [returned |-> TRUE, map |-> resultMap,
                       observedPeriod |-> observedPeriod["res"], err |-> NoErr]
    /\ pc' = [pc EXCEPT !["res"] = "done"]
    /\ UNCHANGED <<maxSteps, outcomes, step, observedPeriod, result, queries,
                   resultMap, IngressMap, ingReturn>>
    /\ UNCHANGED <<held, offsets, cancelRequested, parserVars, reportVars>>
    /\ UNCHANGED <<serverWarns, serverRepeats, visit, startupVars, kubeVars>>

\* main, lines 244-288: once the pod detector has returned (its error is only
\* logged), the ingress detector is called on a fresh IngressMap
MainCallGetUnusedIngresses ==
    /\ pc["res"] = "done"
    /\ pc["ing"] = "wait"
    /\ pc' = [pc EXCEPT !["ing"] = "loop"]
    /\ IngressMap' = NilMap
    /\ UNCHANGED <<maxSteps, outcomes, step, observedPeriod, result, queries,
                   resultMap, promPodsMap, ingReturn>>
    /\ UNCHANGED <<held, offsets, cancelRequested, parserVars, reportVars>>
    /\ UNCHANGED <<serverWarns, serverRepeats, visit, startupVars, kubeVars>>

\* lines 215-230
GetUnusedIngressesQuery ==
    /\ pc["ing"] = "loop"
    /\ step["ing"] < maxSteps
    /\ \E o \in Answers("ing") :
         /\ outcomes' = Record("ing", o)
         /\ queries' = [queries EXCEPT !["ing"] = @ + 1]
         /\ offsets' = [offsets EXCEPT !["ing"] = Append(@, QueryOffset(step["ing"]))]
         /\ held' = [held EXCEPT !["ing"] = HeldAfterQuery(@, step["ing"], o.err)]
         /\ IF QueryFailed(o.err, o.warnings)
            THEN /\ ingReturn' = [returned |-> TRUE,
                                  observedPeriod |-> ErrorPeriod(observedPeriod["ing"]),
                                  err |-> o.err]
                 /\ pc' = [pc EXCEPT !["ing"] = "done"]
                 /\ UNCHANGED result
            ELSE /\ result' = [result EXCEPT !["ing"] = o.rows]
                 /\ pc' = [pc EXCEPT !["ing"] = "process"]
                 /\ UNCHANGED ingReturn
    /\ UNCHANGED <<maxSteps, step, observedPeriod, resultMap, IngressMap, promPodsMap>>
    /\ UNCHANGED <<cancelRequested, parserVars, reportVars>>
    /\ UNCHANGED <<serverWarns, serverRepeats, visit, startupVars, kubeVars>>

\* lines 232-309
GetUnusedIngressesProcess ==
    /\ pc["ing"] = "process"
    /\ \E v \in ResultVectors(result["ing"], outcomes[step["ing"] + 1].repeat) :
       LET lines == IngressLinesOf[v]
           seeded == IF SeedIngressStep(step["ing"], IngressMap)
                     THEN lines.temp.m ELSE IngressMap
       IN  /\ observedPeriod' = [observedPeriod EXCEPT !["ing"] =
                                   ObservedAfter(step["ing"], lines.strs, @)]
           /\ IF NoData(lines.strs)
              THEN /\ pc' = [pc EXCEPT !["ing"] = "break"]
                   /\ UNCHANGED <<step, IngressMap>>
              ELSE IF lines.temp.panic
              THEN /\ pc' = [pc EXCEPT !["ing"] = "panic"]
                   /\ UNCHANGED <<step, IngressMap>>
              ELSE /\ IngressMap' = IF step["ing"] = 0 THEN seeded
                                    ELSE NarrowIngresses(seeded, lines.temp.m)
                   /\ step' = [step EXCEPT !["ing"] = @ + 1]
                   /\ pc' = [pc EXCEPT !["ing"] = "loop"]
    /\ result' = [result EXCEPT !["ing"] = {}]
    /\ UNCHANGED <<maxSteps, outcomes, queries, resultMap, promPodsMap, ingReturn>>
    /\ UNCHANGED <<held, offsets, cancelRequested, parserVars, reportVars>>
    /\ UNCHANGED <<serverWarns, serverRepeats, visit, startupVars, kubeVars>>

\* line 311
GetUnusedIngressesReturn ==
    /\ \/ pc["ing"] = "break"
       \/ pc["ing"] = "loop" /\ step["ing"] >= maxSteps
    /\ ingReturn' = [returned |-> TRUE, observedPeriod |-> observedPeriod["ing"],
                     err |-> NoErr]
    /\ pc' = [pc EXCEPT !["ing"] = "done"]
    /\ UNCHANGED <<maxSteps, outcomes, step, observedPeriod, result, queries,
                   resultMap, IngressMap, promPodsMap>>
    /\ UNCHANGED <<held, offsets, cancelRequested, parserVars, reportVars>>
    /\ UNCHANGED <<serverWarns, serverRepeats, visit, startupVars, kubeVars>>

Next ==
    \/ GetUnusedResourcesQuery
    \/ GetUnusedResourcesProcess
    \/ GetUnusedResourcesReturn
    \/ MainCallGetUnusedIngresses
    \/ GetUnusedIngressesQuery
    \/ GetUnusedIngressesProcess
    \/ GetUnusedIngressesReturn

Spec == Init /\ [][Next]_vars

\* one detector run on its own: GetUnusedResources does not touch what
\* GetUnusedIngresses reads, so either is started from the state of Init
InitAlone ==
    /\ maxSteps \in -1..MaxSteps
    /\ outcomes = <<>>
    /\ \E d \in Detectors : pc = [e \in Detectors |-> IF e = d THEN "loop" ELSE "wait"]
    /\ step = [d \in Detectors |-> 0]
    /\ observedPeriod = [d \in Detectors |-> 0]
    /\ result = [d \in Detectors |-> {}]
    /\ queries = [d \in Detectors |-> 0]
    /\ resultMap = EmptyMap
    /\ IngressMap = NilMap
    /\ promPodsMap = [returned |-> FALSE, map |-> EmptyMap,
                      observedPeriod |-> 0, err |-> NoErr]
    /\ ingReturn = NotReturned
    /\ held = [d \in Detectors |-> {}]
    /\ offsets = [d \in Detectors |-> <<>>]
    /\ cancelRequested = FALSE
    /\ serverWarns = FALSE
    /\ serverRepeats = FALSE
    /\ visit = NotVisiting
    /\ StartupIdle
    /\ KubeIdle
    /\ ParserIdle
    /\ ReportIdle

NextAlone ==
    \/ GetUnusedResourcesQuery
    \/ GetUnusedResourcesProcess
    \/ GetUnusedResourcesReturn
    \/ GetUnusedIngressesQuery
    \/ GetUnusedIngressesProcess
    \/ GetUnusedIngressesReturn

SpecAlone == InitAlone /\ [][NextAlone]_vars

\* the detectors take (promAddr, maxSteps, promQuery) and make their own
\* context from context.Background(): a caller's wish to stop the run is a
\* fact of the caller alone, which no step of a detector reads
CallerCancels ==
    /\ ~cancelRequested
    /\ \E d \in Detectors : pc[d] \in {"loop", "process"}
    /\ cancelRequested' = TRUE
    /\ UNCHANGED <<maxSteps, outcomes, pc, step, observedPeriod, result, queries,
                   resultMap, IngressMap, promPodsMap, ingReturn, held, offsets,
                   parserVars, reportVars>>
    /\ UNCHANGED <<serverWarns, serverRepeats, visit, startupVars, kubeVars>>

NextCancel ==
    \/ NextAlone
    \/ CallerCancels

SpecCancel == InitAlone /\ [][NextCancel]_vars

\* the two detectors called by two goroutines of one caller, each with its
\* own receiver: their steps interleave in any order
InitInterleaved ==
    /\ maxSteps \in 0..InterleavedSteps
    /\ outcomes = <<>>
    /\ pc = [d \in Detectors |-> "loop"]
    /\ step = [d \in Detectors |-> 0]
    /\ observedPeriod = [d \in Detectors |-> 0]
    /\ result = [d \in Detectors |-> {}]
    /\ queries = [d \in Detectors |-> 0]
    /\ resultMap = EmptyMap
    /\ IngressMap = NilMap
    /\ promPodsMap = [returned |-> FALSE, map |-> EmptyMap,
                      observedPeriod |-> 0, err |-> NoErr]
    /\ ingReturn = NotReturned
    /\ held = [d \in Detectors |-> {}]
    /\ offsets = [d \in Detectors |-> <<>>]
    /\ cancelRequested = FALSE
    /\ serverWarns = FALSE
    /\ serverRepeats = FALSE
    /\ visit = NotVisiting
    /\ StartupIdle
    /\ KubeIdle
    /\ ParserIdle
    /\ ReportIdle

SpecInterleaved == InitInterleaved /\ [][NextAlone]_vars

\* one detector run on its own against a server whose answers may carry
\* warnings
InitWarnings ==
    /\ maxSteps \in 0..WarningSteps
    /\ outcomes = <<>>
    /\ \E d \in Detectors : pc = [e \in Detectors |-> IF e = d THEN "loop" ELSE "wait"]
    /\ step = [d \in Detectors |-> 0]
    /\ observedPeriod = [d \in Detectors |-> 0]
    /\ result = [d \in Detectors |-> {}]
    /\ queries = [d \in Detectors |-> 0]
    /\ resultMap = EmptyMap
    /\ IngressMap = NilMap
    /\ promPodsMap = [returned |-> FALSE, map |-> EmptyMap,
                      observedPeriod |-> 0, err |-> NoErr]
    /\ ingReturn = NotReturned
    /\ held = [d \in Detectors |-> {}]
    /\ offsets = [d \in Detectors |-> <<>>]
    /\ cancelRequested = FALSE
    /\ serverWarns = TRUE
    /\ serverRepeats = FALSE
    /\ visit = NotVisiting
    /\ StartupIdle
    /\ KubeIdle
    /\ ParserIdle
    /\ ReportIdle

SpecWarnings == InitWarnings /\ [][NextAlone]_vars

\* one detector run on its own against an endpoint that may list the
\* sample {} twice in a vector
InitRepeats ==
    /\ maxSteps \in 0..MaxSteps
    /\ outcomes = <<>>
    /\ \E d \in Detectors : pc = [e \in Detectors |-> IF e = d THEN "loop" ELSE "wait"]
    /\ step = [d \in Detectors |-> 0]
    /\ observedPeriod = [d \in Detectors |-> 0]
    /\ result = [d \in Detectors |-> {}]
    /\ queries = [d \in Detectors |-> 0]
    /\ resultMap = EmptyMap
    /\ IngressMap = NilMap
    /\ promPodsMap = [returned |-> FALSE, map |-> EmptyMap,
                      observedPeriod |-> 0, err |-> NoErr]
    /\ ingReturn = NotReturned
    /\ held = [d \in Detectors |-> {}]
    /\ offsets = [d \in Detectors |-> <<>>]
    /\ cancelRequested = FALSE
    /\ serverWarns = FALSE
    /\ serverRepeats = TRUE
    /\ visit = NotVisiting
    /\ StartupIdle
    /\ KubeIdle
    /\ ParserIdle
    /\ ReportIdle

SpecRepeats == InitRepeats /\ [][NextAlone]_vars

----------------------------------------------------------------------------
(* The parsing loop on its own: one step's lines, as a server may compose
   them, put through lines 150-172 or 245-264 *)

\* how a line differs from a whole row: not at all, an empty line, a row
\* with a single label, a row lacking its last label, a row cut before the
\* closing quote of its last value
Defects == {"none", "empty", "single", "lacking", "truncated"}

\* the orders in which the labels of a row can stand inside the braces
LabelOrders(d) == Orderings(1..(IF d = "res" THEN 2 ELSE 4))

\* the sorted order, which model.Metric.String() prints
Sorted(d) == [i \in 1..(IF d = "res" THEN 2 ELSE 4) |-> i]

\* the lines of a step: the row of entity e with its labels in some order,
\* or with a defect, or the sample without labels, printed {}
Lines(d) ==
    {[e |-> e, order |-> o, defect |-> "none"] : e \in Metrics, o \in LabelOrders(d)}
    \cup {[e |-> e, order |-> Sorted(d), defect |-> x] :
             e \in Metrics, x \in Defects \ {"none"}}
    \cup {[e |-> NoLabels, order |-> Sorted(d), defect |-> "braces"]}

\* the text of line l
RenderLine(d, l) ==
    LET labels == IF d = "res" THEN PodLabels(l.e) ELSE IngressLabels(l.e)
        permuted == [i \in 1..Len(labels) |-> labels[l.order[i]]]
        whole == MetricString(labels)
    IN  CASE l.defect = "none" -> SampleString(permuted)
          [] l.defect = "braces" -> SampleString(<<>>)
          [] l.defect = "empty" -> <<>>
          [] l.defect = "single" -> SampleString(<<labels[1]>>)
          [] l.defect = "lacking" -> SampleString(SubSeq(labels, 1, Len(labels) - 1))
          [] l.defect = "truncated" -> SubSeq(whole, 1, Len(whole) - 2)

\* a step has two lines or more (a shorter one breaks the loop before the
\* parsing): a line of Lines(d) beside the whole, sorted row of another entity
WholeRows(d) == {[e |-> e, order |-> Sorted(d), defect |-> "none"] : e \in Metrics}

StepsOf(d) ==
    {r \in (Lines(d) \X WholeRows(d)) \cup (WholeRows(d) \X Lines(d)) : r[1].e # r[2].e}

StepInputs == UNION {{[d |-> d, rows |-> r] : r \in StepsOf(d)} : d \in Detectors}

InitParser ==
    /\ maxSteps = 1
    /\ outcomes = <<>>
    /\ pc = [d \in Detectors |-> "wait"]
    /\ step = [d \in Detectors |-> 0]
    /\ observedPeriod = [d \in Detectors |-> 0]
    /\ result = [d \in Detectors |-> {}]
    /\ queries = [d \in Detectors |-> 0]
    /\ resultMap = EmptyMap
    /\ IngressMap = NilMap
    /\ promPodsMap = [returned |-> FALSE, map |-> EmptyMap,
                      observedPeriod |-> 0, err |-> NoErr]
    /\ ingReturn = NotReturned
    /\ held = [d \in Detectors |-> {}]
    /\ offsets = [d \in Detectors |-> <<>>]
    /\ cancelRequested = FALSE
    /\ serverWarns = FALSE
    /\ serverRepeats = FALSE
    /\ visit = NotVisiting
    /\ StartupIdle
    /\ KubeIdle
    /\ stepLines \in StepInputs
    /\ stepParse = NotParsed
    /\ ReportIdle

\* lines 147-172 of GetUnusedResources on the lines of stepLines: what each
\* line gives, and tempMap after the loop (or the panic that ends it)
ParseResourceStep ==
    /\ stepLines.d = "res"
    /\ ~stepParse.done
    /\ LET strs == [i \in 1..Len(stepLines.rows) |-> RenderLine("res", stepLines.rows[i])]
       IN  stepParse' = [done |-> TRUE,
                         rows |-> [i \in 1..Len(strs) |-> ParseResourceRow(strs[i])],
                         temp |-> ParseResourceRows(strs, EmptyMap)]
    /\ UNCHANGED <<maxSteps, outcomes, pc, step, observedPeriod, result, queries,
                   resultMap, IngressMap, promPodsMap, ingReturn, held, offsets,
                   cancelRequested, stepLines, reportVars>>
    /\ UNCHANGED <<serverWarns, serverRepeats, visit, startupVars, kubeVars>>

\* lines 242-264 of GetUnusedIngresses
ParseIngressStep ==
    /\ stepLines.d = "ing"
    /\ ~stepParse.done
    /\ LET strs == [i \in 1..Len(stepLines.rows) |-> RenderLine("ing", stepLines.rows[i])]
       IN  stepParse' = [done |-> TRUE,
                         rows |-> [i \in 1..Len(strs) |-> ParseIngressRow(strs[i])],
                         temp |-> ParseIngressRows(strs, NilMap)]
    /\ UNCHANGED <<maxSteps, outcomes, pc, step, observedPeriod, result, queries,
                   resultMap, IngressMap, promPodsMap, ingReturn, held, offsets,
                   cancelRequested, stepLines, reportVars>>
    /\ UNCHANGED <<serverWarns, serverRepeats, visit, startupVars, kubeVars>>

NextParser ==
    \/ ParseResourceStep
    \/ ParseIngressStep

SpecParser == InitParser /\ [][NextParser]_vars

----------------------------------------------------------------------------
(* main's two reports: the cluster lookups for what the detectors returned *)

\* the pods of every namespace of the cluster, and the labels they carry
ClusterPods == {"web", "db"}

PodLabelsOf(pod) == IF pod = "web" THEN [app |-> "web"] ELSE [app |-> "db"]

\* GetPodRequests without error: the sums over the pod's containers
PodCpu(pod) == IF pod = "db" THEN 250 ELSE 100

PodMem(pod) == IF pod = "db" THEN 2 * 1048576 ELSE 1048576

\* the backend GetIngressBackend finds in the ingress, and its zero value
FoundBackend == [ServiceName |-> <<"s">>, ServicePort |-> <<"8", "0">>]

\* a nil map[string]string, and the selector of the service behind the backend
NilSelector == <<>>

ServiceSelector == [app |-> "web"]

\* GetPodsBySelector without error: labels.Set(selector).String() of a nil
\* selector is "", and a List with an empty LabelSelector lists every pod
PodsBySelector(selector) ==
    IF selector = NilSelector THEN ClusterPods
    ELSE {pod \in ClusterPods : PodLabelsOf(pod).app = selector.app}

RECURSIVE SumOver(_, _)
SumOver(f, S) ==
    IF S = {} THEN 0
    ELSE LET x == CHOOSE y \in S : TRUE IN f[x] + SumOver(f, S \ {x})

\* the maps a detector hands to main: the seed of a response of two lines
\* or more, or no entry at all; for the pod report also a seed narrowed by
\* the sample of a second step
ResourceStepMaps ==
    {EmptyMap} \cup {ResourceLinesOf[v].temp.m : v \in {w \in Vectors : Len(w) >= 2}}

ResourceSeeds ==
    ResourceStepMaps
    \cup {NarrowResources(m, t) : m \in ResourceStepMaps, t \in ResourceStepMaps}

IngressSeeds ==
    {NilMap} \cup {IngressLinesOf[v].temp.m : v \in {w \in Vectors : Len(w) >= 2}}

\* main after GetUnusedResources has returned (line 252); the map that
\* GetUnusedIngresses will have left in IngressMap is drawn here as well
InitReport ==
    /\ maxSteps = 1
    /\ outcomes = <<>>
    /\ pc = [d \in Detectors |-> "done"]
    /\ step = [d \in Detectors |-> 0]
    /\ observedPeriod = [d \in Detectors |-> 0]
    /\ result = [d \in Detectors |-> {}]
    /\ queries = [d \in Detectors |-> 0]
    /\ resultMap = EmptyMap
    /\ \E m \in ResourceSeeds :
         /\ promPodsMap = [returned |-> TRUE, map |-> m,
                           observedPeriod |-> 1, err |-> NoErr]
         /\ podsLeft = ResourceKeys(m)
    /\ IngressMap \in IngressSeeds
    /\ ingReturn = [returned |-> TRUE, observedPeriod |-> 1, err |-> NoErr]
    /\ held = [d \in Detectors |-> {}]
    /\ offsets = [d \in Detectors |-> <<>>]
    /\ cancelRequested = FALSE
    /\ serverWarns = FALSE
    /\ serverRepeats = FALSE
    /\ visit = NotVisiting
    /\ StartupIdle
    /\ KubeIdle
    /\ ParserIdle
    /\ mainPc = "pods"
    /\ pathsLeft = {}
    /\ UselessPodsCnt = 0
    /\ allPodsCpu = 0
    /\ allPodsMem = 0
    /\ lookups = <<>>
    /\ podSummary = NotEmitted
    /\ ingSummary = NotEmitted

\* lines 258-271, one pod of the range: the counter first, then
\* GetPodRequests, whose error skips the sums only (every detected pod
\* requests what the pod "web" requests)
MainPodLookup ==
    /\ mainPc = "pods"
    /\ \E p \in podsLeft : \E failed \in BOOLEAN :
         /\ UselessPodsCnt' = UselessPodsCnt + 1
         /\ allPodsCpu' = IF failed THEN allPodsCpu ELSE allPodsCpu + PodCpu("web")
         /\ allPodsMem' = IF failed THEN allPodsMem ELSE allPodsMem + PodMem("web")
         /\ lookups' = Append(lookups, [report |-> "pods", key |-> p,
                                        backendErr |-> FALSE, selectorErr |-> FALSE,
                                        requestErr |-> failed,
                                        added |-> IF failed THEN 0 ELSE 1])
         /\ podsLeft' = podsLeft \ {p}
    /\ UNCHANGED <<maxSteps, outcomes, pc, step, observedPeriod, result, queries,
                   resultMap, IngressMap, promPodsMap, ingReturn, held, offsets,
                   cancelRequested, parserVars, mainPc, pathsLeft, podSummary,
                   ingSummary>>
    /\ UNCHANGED <<serverWarns, serverRepeats, visit, startupVars, kubeVars>>

\* lines 275-300: the summary of the pod report, the counters set back to 0,
\* and the range over IngressMap.M begins (the keys under a nil map are none)
MainPodSummary ==
    /\ mainPc = "pods"
    /\ podsLeft = {}
    /\ podSummary' = [emitted |-> TRUE, count |-> UselessPodsCnt,
                      namespaces |-> Cardinality(DOMAIN promPodsMap.map),
                      cpu |-> allPodsCpu, memMB |-> (allPodsMem \div 1024) \div 1024]
    /\ UselessPodsCnt' = 0
    /\ allPodsCpu' = 0
    /\ allPodsMem' = 0
    /\ pathsLeft' = IngressKeys(IngressMap)
    /\ mainPc' = "ingresses"
    /\ UNCHANGED <<maxSteps, outcomes, pc, step, observedPeriod, result, queries,
                   resultMap, IngressMap, promPodsMap, ingReturn, held, offsets,
                   cancelRequested, parserVars, podsLeft, lookups, ingSummary>>
    /\ UNCHANGED <<serverWarns, serverRepeats, visit, startupVars, kubeVars>>

\* lines 305-338, one path of the range: every error is logged and the
\* iteration goes on with the zero value; `pods.Items` of the nil list that
\* GetPodsBySelector returns with an error is a nil dereference
MainIngressLookup ==
    /\ mainPc = "ingresses"
    /\ \E k \in pathsLeft : \E backendErr, svcErr, listErr \in BOOLEAN :
         LET back == IF backendErr THEN EmptyBackend ELSE FoundBackend
             selectorErr == svcErr \/ back.ServiceName = <<>>
             selector == IF selectorErr THEN NilSelector ELSE ServiceSelector
             pods == PodsBySelector(selector)
         IN  /\ IngressMap' =
                   [IngressMap EXCEPT !.kv[k[1]].kv[k[2]][k[3]][k[4]] = back]
             /\ pathsLeft' = pathsLeft \ {k}
             /\ IF listErr
                THEN /\ mainPc' = "panic"
                     /\ lookups' = Append(lookups,
                            [report |-> "ingresses", key |-> k,
                             backendErr |-> backendErr, selectorErr |-> selectorErr,
                             requestErr |-> FALSE, added |-> 0])
                     /\ UNCHANGED <<UselessPodsCnt, allPodsCpu, allPodsMem>>
                ELSE \E got \in SUBSET pods :
                     /\ UselessPodsCnt' = UselessPodsCnt + Cardinality(got)
                     /\ allPodsCpu' = allPodsCpu
                                       + SumOver([q \in ClusterPods |-> PodCpu(q)], got)
                     /\ allPodsMem' = allPodsMem
                                       + SumOver([q \in ClusterPods |-> PodMem(q)], got)
                     /\ lookups' = Append(lookups,
                            [report |-> "ingresses", key |-> k,
                             backendErr |-> backendErr, selectorErr |-> selectorErr,
                             requestErr |-> got # pods, added |-> Cardinality(got)])
                     /\ UNCHANGED mainPc
    /\ UNCHANGED <<maxSteps, outcomes, pc, step, observedPeriod, result, queries,
                   resultMap, promPodsMap, ingReturn, held, offsets,
                   cancelRequested, parserVars, podsLeft, podSummary, ingSummary>>
    /\ UNCHANGED <<serverWarns, serverRepeats, visit, startupVars, kubeVars>>

\* lines 344-345: the summary of the ingress report
MainIngressSummary ==
    /\ mainPc = "ingresses"
    /\ pathsLeft = {}
    /\ ingSummary' = [emitted |-> TRUE, count |-> UselessPodsCnt,
                      cpu |-> allPodsCpu, memMB |-> (allPodsMem \div 1024) \div 1024]
    /\ mainPc' = "exit"
    /\ UNCHANGED <<maxSteps, outcomes, pc, step, observedPeriod, result, queries,
                   resultMap, IngressMap, promPodsMap, ingReturn, held, offsets,
                   cancelRequested, parserVars, podsLeft, pathsLeft, UselessPodsCnt,
                   allPodsCpu, allPodsMem, lookups, podSummary>>
    /\ UNCHANGED <<serverWarns, serverRepeats, visit, startupVars, kubeVars>>

NextReport ==
    \/ MainPodLookup
    \/ MainPodSummary
    \/ MainIngressLookup
    \/ MainIngressSummary

SpecReport == InitReport /\ [][NextReport]_vars

----------------------------------------------------------------------------
(* The narrowing loops, one iteration at a time.  A Go range over a map
   visits the entries in an unspecified order; an entry deleted before it is
   reached is not produced, and deleting the entry being visited is allowed. *)

\* a range that a delete would end
LeftAfterDeleteStops(left) == {}

\* the entries still to visit after `delete` of the one being visited
LeftAfterDelete(left) == left

\* the candidate maps a step > 0 can find: a seed, or a seed narrowed once
\* (a nil map only beside a nil tempMap: line 267 has replaced any other)
IngressStepMaps ==
    {NilMap} \cup {IngressLinesOf[v].temp.m : v \in {w \in Vectors : Len(w) >= 2}}

NarrowedIngressMaps ==
    IngressStepMaps
    \cup {NarrowIngresses(m, t) : m \in IngressStepMaps, t \in IngressStepMaps}

\* the loops about to start on the map `from` with the step's tempMap `temp`
NarrowInputs ==
    {[d |-> "res", from |-> m, temp |-> t, level |-> "ns",
      nsLeft |-> DOMAIN m, ns |-> <<>>, resLeft |-> {}] :
        m \in ResourceSeeds, t \in ResourceStepMaps}
    \cup
    {[d |-> "ing", from |-> p[1], temp |-> p[2], level |-> "ns",
      nsLeft |-> DOMAIN p[1].kv, ns |-> <<>>, ingLeft |-> {}, ing |-> <<>>,
      hostLeft |-> {}, host |-> <<>>, pathLeft |-> {}] :
        p \in {q \in NarrowedIngressMaps \X IngressStepMaps :
                 q[1].isNil => q[2].isNil}}

\* a detector at a step > 0, after `tempMap` is filled and before the loops
InitNarrow ==
    /\ maxSteps = MaxSteps
    /\ outcomes = <<>>
    /\ visit \in NarrowInputs
    /\ pc = [d \in Detectors |-> IF d = visit.d THEN "narrow" ELSE "wait"]
    /\ step = [d \in Detectors |-> IF d = visit.d THEN 1 ELSE 0]
    /\ observedPeriod = [d \in Detectors |-> IF d = visit.d THEN 2 ELSE 0]
    /\ result = [d \in Detectors |-> {}]
    /\ queries = [d \in Detectors |-> IF d = visit.d THEN 2 ELSE 0]
    /\ resultMap = IF visit.d = "res" THEN visit.from ELSE EmptyMap
    /\ IngressMap = IF visit.d = "ing" THEN visit.from ELSE NilMap
    /\ promPodsMap = [returned |-> FALSE, map |-> EmptyMap,
                      observedPeriod |-> 0, err |-> NoErr]
    /\ ingReturn = NotReturned
    /\ held = [d \in Detectors |-> {}]
    /\ offsets = [d \in Detectors |-> <<>>]
    /\ cancelRequested = FALSE
    /\ serverWarns = FALSE
    /\ serverRepeats = FALSE
    /\ StartupIdle
    /\ KubeIdle
    /\ ParserIdle
    /\ ReportIdle

\* lines 180-193, one iteration: the outer range takes a namespace and opens
\* the range over its map; the inner range takes an element and deletes it
\* when tempMap[ns] does not hold it
NarrowResourcesVisit ==
    /\ visit.d = "res"
    /\ pc["res"] = "narrow"
    /\ \/ /\ visit.level = "ns"
          /\ visit.nsLeft = {}
          /\ visit' = [visit EXCEPT !.level = "done"]
          /\ pc' = [pc EXCEPT !["res"] = "loop"]
          /\ step' = [step EXCEPT !["res"] = @ + 1]
          /\ UNCHANGED resultMap
       \/ /\ visit.level = "ns"
          /\ \E ns \in visit.nsLeft :
               visit' = [visit EXCEPT !.nsLeft = @ \ {ns}, !.ns = ns,
                                      !.resLeft = DOMAIN resultMap[ns],
                                      !.level = "res"]
          /\ UNCHANGED <<resultMap, pc, step>>
       \/ /\ visit.level = "res"
          /\ visit.resLeft = {}
          /\ visit' = [visit EXCEPT !.level = "ns"]
          /\ UNCHANGED <<resultMap, pc, step>>
       \/ /\ visit.level = "res"
          /\ \E res \in visit.resLeft :
               LET ns == visit.ns
                   ok == ns \in DOMAIN visit.temp /\ res \in DOMAIN visit.temp[ns]
                   rest == visit.resLeft \ {res}
               IN  IF ok
                   THEN /\ visit' = [visit EXCEPT !.resLeft = rest]
                        /\ UNCHANGED resultMap
                   ELSE /\ visit' = [visit EXCEPT !.resLeft = LeftAfterDelete(rest)]
                        /\ resultMap' = [resultMap EXCEPT ![ns] =
                                           [r \in DOMAIN @ \ {res} |-> @[r]]]
          /\ UNCHANGED <<pc, step>>
    /\ UNCHANGED <<maxSteps, outcomes, observedPeriod, result, queries, IngressMap,
                   promPodsMap, ingReturn, held, offsets, cancelRequested,
                   parserVars, reportVars, serverWarns, serverRepeats, startupVars,
                   kubeVars>>

\* lines 272-308, one iteration of the deepest range that is open: a
\* namespace missing from tempMap is set to nil, a missing ingress is
\* deleted, the host test looks the ingress up again, a missing path is
\* deleted; a range over a nil map has no iteration
NarrowIngressesVisit ==
    /\ visit.d = "ing"
    /\ pc["ing"] = "narrow"
    /\ LET M == IngressMap
           T == visit.temp
           ns == visit.ns
           ing == visit.ing
           host == visit.host
       IN
       \/ /\ visit.level = "ns"
          /\ visit.nsLeft = {}
          /\ visit' = [visit EXCEPT !.level = "done"]
          /\ pc' = [pc EXCEPT !["ing"] = "loop"]
          /\ step' = [step EXCEPT !["ing"] = @ + 1]
          /\ UNCHANGED IngressMap
       \/ /\ visit.level = "ns"
          /\ \E n \in visit.nsLeft :
               IF ~(n \in DOMAIN T.kv)
               THEN /\ IngressMap' = [M EXCEPT !.kv[n] = NilMap]
                    /\ visit' = [visit EXCEPT !.nsLeft = @ \ {n}]
               ELSE /\ visit' = [visit EXCEPT !.nsLeft = @ \ {n}, !.ns = n,
                                           !.ingLeft = DOMAIN M.kv[n].kv,
                                           !.level = "ing"]
                    /\ UNCHANGED IngressMap
          /\ UNCHANGED <<pc, step>>
       \/ /\ visit.level = "ing"
          /\ visit.ingLeft = {}
          /\ visit' = [visit EXCEPT !.level = "ns"]
          /\ UNCHANGED <<IngressMap, pc, step>>
       \/ /\ visit.level = "ing"
          /\ \E i \in visit.ingLeft :
               LET rest == visit.ingLeft \ {i}
               IN  IF ~(i \in DOMAIN T.kv[ns].kv)
                   THEN /\ IngressMap' = [M EXCEPT !.kv[ns].kv =
                                            [j \in DOMAIN @ \ {i} |-> @[j]]]
                        /\ visit' = [visit EXCEPT !.ingLeft = LeftAfterDelete(rest)]
                   ELSE /\ visit' = [visit EXCEPT !.ingLeft = rest, !.ing = i,
                                               !.hostLeft = DOMAIN M.kv[ns].kv[i],
                                               !.level = "host"]
                        /\ UNCHANGED IngressMap
          /\ UNCHANGED <<pc, step>>
       \/ /\ visit.level = "host"
          /\ visit.hostLeft = {}
          /\ visit' = [visit EXCEPT !.level = "ing"]
          /\ UNCHANGED <<IngressMap, pc, step>>
       \/ /\ visit.level = "host"
          /\ \E h \in visit.hostLeft :
               LET rest == visit.hostLeft \ {h}
               IN  IF ~(ing \in DOMAIN T.kv[ns].kv)
                   THEN /\ IngressMap' = [M EXCEPT !.kv[ns].kv[ing] =
                                            [g \in DOMAIN @ \ {h} |-> @[g]]]
                        /\ visit' = [visit EXCEPT !.hostLeft = LeftAfterDelete(rest)]
                   ELSE /\ visit' = [visit EXCEPT !.hostLeft = rest, !.host = h,
                                               !.pathLeft = DOMAIN M.kv[ns].kv[ing][h],
                                               !.level = "path"]
                        /\ UNCHANGED IngressMap
          /\ UNCHANGED <<pc, step>>
       \/ /\ visit.level = "path"
          /\ visit.pathLeft = {}
          /\ visit' = [visit EXCEPT !.level = "host"]
          /\ UNCHANGED <<IngressMap, pc, step>>
       \/ /\ visit.level = "path"
          /\ \E q \in visit.pathLeft :
               LET rest == visit.pathLeft \ {q}
                   ok == /\ host \in DOMAIN T.kv[ns].kv[ing]
                         /\ q \in DOMAIN T.kv[ns].kv[ing][host]
               IN  IF ok
                   THEN /\ visit' = [visit EXCEPT !.pathLeft = rest]
                        /\ UNCHANGED IngressMap
                   ELSE /\ IngressMap' = [M EXCEPT !.kv[ns].kv[ing][host] =
                                            [r \in DOMAIN @ \ {q} |-> @[r]]]
                        /\ visit' = [visit EXCEPT !.pathLeft = LeftAfterDelete(rest)]
          /\ UNCHANGED <<pc, step>>
    /\ UNCHANGED <<maxSteps, outcomes, observedPeriod, result, queries, resultMap,
                   promPodsMap, ingReturn, held, offsets, cancelRequested,
                   parserVars, reportVars, serverWarns, serverRepeats, startupVars,
                   kubeVars>>

NextNarrow ==
    \/ NarrowResourcesVisit
    \/ NarrowIngressesVisit

SpecNarrow == InitNarrow /\ [][NextNarrow]_vars

----------------------------------------------------------------------------
(* main before its first query: the flag check, the cluster configuration
   and the tested client *)

\* `for i := range []int{1, 2, 3}` of GetKClient
ConnectionTries == 3

\* the node counts a successful listing may report (they are only logged)
NodeCounts == {0, 2}

Letters == {"h", "t", "p", "x"}
Digits == {"9"}

\* texts of the --prom-uri flag: its default "", "http://p", "/x", "p:9",
\* "x", ":9" and "*"
FlagTexts ==
    { <<>>, <<"h", "t", "t", "p", ":", "/", "/", "p">>, <<"/", "x">>,
      <<"p", ":", "9">>, <<"x">>, <<":", "9">>, <<"*">> }

\* net/url getScheme: the place of the colon that ends a scheme, 0 when the
\* text has no scheme, -1 for "missing protocol scheme"
RECURSIVE SchemeEnd(_, _)
SchemeEnd(rawURL, i) ==
    IF i > Len(rawURL) THEN 0
    ELSE IF rawURL[i] \in Letters THEN SchemeEnd(rawURL, i + 1)
    ELSE IF rawURL[i] \in Digits \cup {"+", "-", "."}
         THEN (IF i = 1 THEN 0 ELSE SchemeEnd(rawURL, i + 1))
    ELSE IF rawURL[i] = ":" THEN (IF i = 1 THEN -1 ELSE i)
    ELSE 0

\* url.ParseRequestURI (net/url parse with viaRequest): the error it
\* returns, NoErr for a text it takes as an absolute URI or an absolute path
ParseRequestURI(rawURL) ==
    LET colon == SchemeEnd(rawURL, 1)
        rest == IF colon > 0 THEN SubSeq(rawURL, colon + 1, Len(rawURL)) ELSE rawURL
    IN  IF rawURL = <<>> THEN "empty url"
        ELSE IF rawURL = <<"*">> THEN NoErr
        ELSE IF colon = -1 THEN "missing protocol scheme"
        ELSE IF rest # <<>> /\ Head(rest) = "/" THEN NoErr
        ELSE IF colon > 0 THEN NoErr
        ELSE "invalid URI for request"

\* a loop that would list the nodes once more
MoreTriesFour(i) == i < ConnectionTries + 1

\* the range of GetKClient's loop after i iterations
MoreTries(i) == i < ConnectionTries

\* what `kClient.CoreV1().Nodes().List` can give
ListOutcomes ==
    {[err |-> e, nodes |-> 0] : e \in Errors}
    \cup {[err |-> NoErr, nodes |-> n] : n \in NodeCounts}

\* main after flag.Parse (line 186)
InitStartup ==
    /\ maxSteps \in 0..1
    /\ outcomes = <<>>
    /\ pc = [d \in Detectors |-> "wait"]
    /\ step = [d \in Detectors |-> 0]
    /\ observedPeriod = [d \in Detectors |-> 0]
    /\ result = [d \in Detectors |-> {}]
    /\ queries = [d \in Detectors |-> 0]
    /\ resultMap = EmptyMap
    /\ IngressMap = NilMap
    /\ promPodsMap = [returned |-> FALSE, map |-> EmptyMap,
                      observedPeriod |-> 0, err |-> NoErr]
    /\ ingReturn = NotReturned
    /\ held = [d \in Detectors |-> {}]
    /\ offsets = [d \in Detectors |-> <<>>]
    /\ cancelRequested = FALSE
    /\ serverWarns = FALSE
    /\ serverRepeats = FALSE
    /\ visit = NotVisiting
    /\ promAddr \in FlagTexts
    /\ bootPc = "flags"
    /\ attempts = <<>>
    /\ gotNodes = FALSE
    /\ clientErr = NoErr
    /\ KubeIdle
    /\ ParserIdle
    /\ ReportIdle

\* main, lines 211-216: a flag that url.ParseRequestURI rejects prints the
\* usage and exits
MainCheckPromAddr ==
    /\ bootPc = "flags"
    /\ bootPc' = IF ParseRequestURI(promAddr) # NoErr THEN "exit" ELSE "config"
    /\ UNCHANGED <<promAddr, attempts, gotNodes, clientErr>>
    /\ UNCHANGED <<maxSteps, outcomes, pc, step, observedPeriod, result, queries,
                   resultMap, IngressMap, promPodsMap, ingReturn, held, offsets,
                   cancelRequested, parserVars, reportVars, serverWarns,
                   serverRepeats, visit, kubeVars>>

\* main, lines 219-222, and GetConfig: the kubeconfig or the in-cluster
\* credentials are loaded; an error exits
MainGetConfig ==
    /\ bootPc = "config"
    /\ \E err \in {NoErr, "no config"} :
         bootPc' = IF err # NoErr THEN "exit" ELSE "client"
    /\ UNCHANGED <<promAddr, attempts, gotNodes, clientErr>>
    /\ UNCHANGED <<maxSteps, outcomes, pc, step, observedPeriod, result, queries,
                   resultMap, IngressMap, promPodsMap, ingReturn, held, offsets,
                   cancelRequested, parserVars, reportVars, serverWarns,
                   serverRepeats, visit, kubeVars>>

\* GetKClient, lines 71-76: kubernetes.NewForConfig; its error is returned
\* to main, which exits (lines 227-230)
GetKClientNewForConfig ==
    /\ bootPc = "client"
    /\ \E err \in {NoErr, "bad config"} :
         /\ clientErr' = err
         /\ bootPc' = IF err # NoErr THEN "exit" ELSE "connect"
    /\ UNCHANGED <<promAddr, attempts, gotNodes>>
    /\ UNCHANGED <<maxSteps, outcomes, pc, step, observedPeriod, result, queries,
                   resultMap, IngressMap, promPodsMap, ingReturn, held, offsets,
                   cancelRequested, parserVars, reportVars, serverWarns,
                   serverRepeats, visit, kubeVars>>

\* GetKClient, lines 77-91, one iteration: the listing's err is a variable
\* of the loop body; a failure sleeps and continues, a success breaks
GetKClientListNodes ==
    /\ bootPc = "connect"
    /\ ~gotNodes
    /\ MoreTries(Len(attempts))
    /\ \E o \in ListOutcomes :
         /\ attempts' = Append(attempts, o)
         /\ gotNodes' = (o.err = NoErr)
    /\ UNCHANGED <<promAddr, bootPc, clientErr>>
    /\ UNCHANGED <<maxSteps, outcomes, pc, step, observedPeriod, result, queries,
                   resultMap, IngressMap, promPodsMap, ingReturn, held, offsets,
                   cancelRequested, parserVars, reportVars, serverWarns,
                   serverRepeats, visit, kubeVars>>

\* GetKClient, lines 92-96, and main, lines 227-230: klog.Exit without
\* nodes, else `return kClient, err` with the outer err
GetKClientReturn ==
    /\ bootPc = "connect"
    /\ gotNodes \/ ~MoreTries(Len(attempts))
    /\ bootPc' = IF ~gotNodes THEN "exit"
                 ELSE IF clientErr # NoErr THEN "exit"
                 ELSE "run"
    /\ UNCHANGED <<promAddr, attempts, gotNodes, clientErr>>
    /\ UNCHANGED <<maxSteps, outcomes, pc, step, observedPeriod, result, queries,
                   resultMap, IngressMap, promPodsMap, ingReturn, held, offsets,
                   cancelRequested, parserVars, reportVars, serverWarns,
                   serverRepeats, visit, kubeVars>>

\* main, line 244: the call of GetUnusedResources, whose loop issues the
\* first query when maxSteps allows one
MainCallGetUnusedResources ==
    /\ bootPc = "run"
    /\ bootPc' = "query"
    /\ pc' = [pc EXCEPT !["res"] = "loop"]
    /\ UNCHANGED <<promAddr, attempts, gotNodes, clientErr>>
    /\ UNCHANGED <<maxSteps, outcomes, step, observedPeriod, result, queries,
                   resultMap, IngressMap, promPodsMap, ingReturn, held, offsets,
                   cancelRequested, parserVars, reportVars, serverWarns,
                   serverRepeats, visit, kubeVars>>

NextStartup ==
    \/ MainCheckPromAddr
    \/ MainGetConfig
    \/ GetKClientNewForConfig
    \/ GetKClientListNodes
    \/ GetKClientReturn
    \/ MainCallGetUnusedResources

SpecStartup == InitStartup /\ [][NextStartup]_vars

----------------------------------------------------------------------------
(* The cluster lookups of pkg/ukubernetes, each called on its own *)

\* most rules of an ingress, and most paths of a rule
MaxRules == 2
MaxPaths == 2

\* hosts of the rules, and the paths of their HTTP section ("" is <<>>)
RuleHosts == {<<"h">>, <<"g">>}
RulePaths == {<<>>, <<"/">>, <<"/", "x">>}

\* backends of the paths: the service "s" or "t", port 80
PathBackends ==
    {[ServiceName |-> n, ServicePort |-> <<"8", "0">>] : n \in {<<"s">>, <<"t">>}}

\* sequences over S of length n at most
SeqUpTo(S, n) == UNION {[1..k -> S] : k \in 0..n}

\* rule.IngressRuleValue.HTTP is a pointer: nil for a rule without HTTP
\* section, else the paths in their order
NilHTTP == [isNil |-> TRUE, Paths |-> <<>>]

HTTPValues ==
    {NilHTTP}
    \cup {[isNil |-> FALSE, Paths |-> ps] :
            ps \in SeqUpTo([Path : RulePaths, Backend : PathBackends], MaxPaths)}

\* what `Ingresses(namespace).Get` can give: an error, or the ingress with
\* its Spec.Rules
IngressObjects ==
    {[err |-> e, Rules |-> <<>>] : e \in Errors}
    \cup {[err |-> NoErr, Rules |-> rs] :
            rs \in SeqUpTo([Host : RuleHosts, HTTP : HTTPValues], MaxRules)}

\* lines 147-152: the range over the paths of one rule
RECURSIVE ScanPaths(_, _, _)
ScanPaths(paths, path, acc) ==
    IF paths = <<>> THEN acc
    ELSE LET tPath == Head(paths)
         IN  ScanPaths(Tail(paths), path,
                       IF tPath.Path = path \/ tPath.Path = <<>>
                       THEN [acc EXCEPT !.backend = tPath.Backend, !.found = TRUE]
                       ELSE acc)

\* lines 145-154: the range over the rules; `rule.IngressRuleValue.HTTP.Paths`
\* of a rule of the host whose HTTP is nil is a nil dereference
RECURSIVE ScanRules(_, _, _, _)
ScanRules(rules, host, path, acc) ==
    IF rules = <<>> THEN acc
    ELSE LET rule == Head(rules)
         IN  IF rule.Host # host THEN ScanRules(Tail(rules), host, path, acc)
             ELSE IF rule.HTTP.isNil THEN [acc EXCEPT !.panic = TRUE]
             ELSE ScanRules(Tail(rules), host, path,
                            ScanPaths(rule.HTTP.Paths, path, acc))

\* GetIngressBackend, lines 136-161, on the object that Get gave
IngressBackendOf(ingressStruct, host, path) ==
    LET scan == ScanRules(ingressStruct.Rules, host, path,
                          [panic |-> FALSE, found |-> FALSE, backend |-> EmptyBackend])
    IN  IF ingressStruct.err # NoErr
        THEN [done |-> TRUE, panic |-> FALSE, backend |-> EmptyBackend,
              err |-> ingressStruct.err]
        ELSE IF scan.panic
        THEN [done |-> TRUE, panic |-> TRUE, backend |-> EmptyBackend, err |-> NoErr]
        ELSE IF ~scan.found
        THEN [done |-> TRUE, panic |-> FALSE, backend |-> scan.backend,
              err |-> "not found"]
        ELSE [done |-> TRUE, panic |-> FALSE, backend |-> scan.backend, err |-> NoErr]

\* a call of GetIngressBackend for a host and a path of the metrics
InitBackend ==
    /\ maxSteps = 1
    /\ outcomes = <<>>
    /\ pc = [d \in Detectors |-> "done"]
    /\ step = [d \in Detectors |-> 0]
    /\ observedPeriod = [d \in Detectors |-> 0]
    /\ result = [d \in Detectors |-> {}]
    /\ queries = [d \in Detectors |-> 0]
    /\ resultMap = EmptyMap
    /\ IngressMap = NilMap
    /\ promPodsMap = [returned |-> FALSE, map |-> EmptyMap,
                      observedPeriod |-> 0, err |-> NoErr]
    /\ ingReturn = NotReturned
    /\ held = [d \in Detectors |-> {}]
    /\ offsets = [d \in Detectors |-> <<>>]
    /\ cancelRequested = FALSE
    /\ serverWarns = FALSE
    /\ serverRepeats = FALSE
    /\ visit = NotVisiting
    /\ StartupIdle
    /\ ParserIdle
    /\ ReportIdle
    /\ \E o \in IngressObjects, h \in {<<"h">>}, q \in {<<"/">>, <<"/", "x">>} :
         kubeCall = [fn |-> "GetIngressBackend", ingressStruct |-> o,
                     host |-> h, path |-> q]
    /\ kubeRet = NotCalled

GetIngressBackend ==
    /\ kubeCall.fn = "GetIngressBackend"
    /\ ~kubeRet.done
    /\ kubeRet' = IngressBackendOf(kubeCall.ingressStruct, kubeCall.host, kubeCall.path)
    /\ UNCHANGED <<maxSteps, outcomes, pc, step, observedPeriod, result, queries,
                   resultMap, IngressMap, promPodsMap, ingReturn, held, offsets,
                   cancelRequested, parserVars, reportVars, serverWarns,
                   serverRepeats, visit, startupVars, kubeCall>>

NextBackend == GetIngressBackend

SpecBackend == InitBackend /\ [][NextBackend]_vars

\* most containers of a pod
MaxContainers == 2

\* a resource.Quantity as written in the pod: a number and a suffix; the
\* zero Quantity is what a missing key of Requests gives
ZeroQuantity == [n |-> 0, suffix |-> ""]

\* "250m" and "1" (CPU), "1Mi" and "512" (memory)
CpuQuantities == {[n |-> 250, suffix |-> "m"], [n |-> 1, suffix |-> ""]}
MemQuantities == {[n |-> 1, suffix |-> "Mi"], [n |-> 512, suffix |-> ""]}

\* a reading that takes the number for the value whatever the suffix
MilliValueOfNumber(q) == q.n

\* Quantity.MilliValue(): the value in thousandths
MilliValue(q) ==
    CASE q.suffix = "m" -> q.n
      [] q.suffix = "" -> q.n * 1000
      [] q.suffix = "Mi" -> q.n * 1048576 * 1000

\* Quantity.Value(): the value in units, a fraction rounded up
Value(q) ==
    CASE q.suffix = "m" -> (q.n + 999) \div 1000
      [] q.suffix = "" -> q.n
      [] q.suffix = "Mi" -> q.n * 1048576

\* Resources.Requests of a container: a map that may lack either key
RequestMaps ==
    UNION {[K -> CpuQuantities \cup MemQuantities] : K \in SUBSET {"cpu", "memory"}}

ContainerRequests ==
    {r \in RequestMaps :
       /\ "cpu" \in DOMAIN r => r["cpu"] \in CpuQuantities
       /\ "memory" \in DOMAIN r => r["memory"] \in MemQuantities}

\* `Requests["cpu"]`: the zero value for a missing key
RequestOf(requests, name) ==
    IF name \in DOMAIN requests THEN requests[name] ELSE ZeroQuantity

\* what `Pods(namespace).Get` can give: an error, or the pod with its
\* Spec.Containers
PodObjects ==
    {[err |-> e, Containers |-> <<>>] : e \in Errors}
    \cup {[err |-> NoErr, Containers |-> cs] :
            cs \in SeqUpTo([Requests : ContainerRequests], MaxContainers)}

\* lines 173-185: the range over the containers with the two sums
RECURSIVE SumRequests(_, _, _)
SumRequests(containers, podCpu, podMem) ==
    IF containers = <<>> THEN [cpu |-> podCpu, mem |-> podMem]
    ELSE LET containerName == Head(containers)
             containerCpu == MilliValue(RequestOf(containerName.Requests, "cpu"))
             containerMem == Value(RequestOf(containerName.Requests, "memory"))
         IN  SumRequests(Tail(containers), podCpu + containerCpu, podMem + containerMem)

\* GetPodRequests, lines 166-188, on the object that Get gave
PodRequestsOf(pod) ==
    IF pod.err # NoErr
    THEN [done |-> TRUE, cpu |-> 0, mem |-> 0, err |-> pod.err]
    ELSE LET sums == SumRequests(pod.Containers, 0, 0)
         IN  [done |-> TRUE, cpu |-> sums.cpu, mem |-> sums.mem, err |-> NoErr]

\* a call of GetPodRequests for a pod of a report
InitRequests ==
    /\ maxSteps = 1
    /\ outcomes = <<>>
    /\ pc = [d \in Detectors |-> "done"]
    /\ step = [d \in Detectors |-> 0]
    /\ observedPeriod = [d \in Detectors |-> 0]
    /\ result = [d \in Detectors |-> {}]
    /\ queries = [d \in Detectors |-> 0]
    /\ resultMap = EmptyMap
    /\ IngressMap = NilMap
    /\ promPodsMap = [returned |-> FALSE, map |-> EmptyMap,
                      observedPeriod |-> 0, err |-> NoErr]
    /\ ingReturn = NotReturned
    /\ held = [d \in Detectors |-> {}]
    /\ offsets = [d \in Detectors |-> <<>>]
    /\ cancelRequested = FALSE
    /\ serverWarns = FALSE
    /\ serverRepeats = FALSE
    /\ visit = NotVisiting
    /\ StartupIdle
    /\ ParserIdle
    /\ ReportIdle
    /\ \E o \in PodObjects : kubeCall = [fn |-> "GetPodRequests", pod |-> o]
    /\ kubeRet = NotCalled

GetPodRequests ==
    /\ kubeCall.fn = "GetPodRequests"
    /\ ~kubeRet.done
    /\ kubeRet' = PodRequestsOf(kubeCall.pod)
    /\ UNCHANGED <<maxSteps, outcomes, pc, step, observedPeriod, result, queries,
                   resultMap, IngressMap, promPodsMap, ingReturn, held, offsets,
                   cancelRequested, parserVars, reportVars, serverWarns,
                   serverRepeats, visit, startupVars, kubeCall>>

NextRequests == GetPodRequests

SpecRequests == InitRequests /\ [][NextRequests]_vars

----------------------------------------------------------------------------
(* Vocabulary of the properties *)

\* the key tuple of entity e at either depth, in the caller's order
KeyOf(d, e) ==
    IF d = "res" THEN <<MetricTable[e].ns, FlatName(e)>>
    ELSE <<MetricTable[e].ns, MetricTable[e].ing, MetricTable[e].host, MetricTable[e].path>>

\* the rows of a response that name an entity
DataRows(rows) == rows \ {NoLabels}

\* the sample set of a response: one key per entity row
SampleKeys(d, rows) == {KeyOf(d, e) : e \in DataRows(rows)}

\* the candidate map of detector d as it stands, and its key tuples
CandidateMap(d) == IF d = "res" THEN resultMap ELSE IngressMap.kv

CandidateKeys(d) ==
    IF d = "res" THEN ResourceKeys(resultMap) ELSE IngressKeys(IngressMap)

\* what the caller holds once detector d has returned
Returned(d) == IF d = "res" THEN promPodsMap.returned ELSE ingReturn.returned

ReturnedErr(d) == IF d = "res" THEN promPodsMap.err ELSE ingReturn.err

ReturnedPeriod(d) ==
    IF d = "res" THEN promPodsMap.observedPeriod ELSE ingReturn.observedPeriod

CallerKeys(d) ==
    IF d = "res" THEN ResourceKeys(promPodsMap.map) ELSE IngressKeys(IngressMap)

\* the keys present in the sample sets of all of the steps 1..n of the stream
RECURSIVE KeysInAll(_, _)
KeysInAll(d, n) ==
    IF n = 1 THEN SampleKeys(d, outcomes[1].rows)
    ELSE KeysInAll(d, n - 1) \cap SampleKeys(d, outcomes[n].rows)

\* number of the queries of d so far whose response named an entity
StepsWithData(d) ==
    Cardinality({j \in 1..queries[d] : DataRows(outcomes[j].rows) # {}})

----------------------------------------------------------------------------
(* C1: after every step that was processed, the candidate map holds exactly
   the key tuples present in the sample sets of all the steps so far, and so
   does the map handed back. *)
C1_MapIsIntersection ==
    \A d \in Detectors :
        /\ step[d] >= 1 => CandidateKeys(d) = KeysInAll(d, step[d])
        /\ (Returned(d) /\ ReturnedErr(d) = NoErr /\ step[d] >= 1)
              => CallerKeys(d) = KeysInAll(d, step[d])

\* the same for the two-label detector alone
C1_ResourcesOnly ==
    /\ step["res"] >= 1 => ResourceKeys(resultMap) = KeysInAll("res", step["res"])
    /\ (promPodsMap.returned /\ promPodsMap.err = NoErr /\ step["res"] >= 1)
          => ResourceKeys(promPodsMap.map) = KeysInAll("res", step["res"])

(* C2: when the response of step 0 names at least one entity, the candidate
   map after step 0 alone equals the sample set of that response. *)
C2_SeedIsFirstSample ==
    \A d \in Detectors :
        ( /\ queries[d] = 1
          /\ pc[d] \in {"loop", "break", "done"}
          /\ outcomes[1].err = NoErr
          /\ DataRows(outcomes[1].rows) # {} )
        => CandidateKeys(d) = SampleKeys(d, outcomes[1].rows)


(* C3: a step whose response names no entity ends the run: the loop breaks
   with observedPeriod = step + 1 and the candidate map untouched (empty at
   step 0), the detector returns that map and period with a nil error, and
   no query is issued after the break. *)
C3_Step(d) ==
    /\ (pc[d] = "process" /\ DataRows(result[d]) = {})
          => /\ pc'[d] = "break"
             /\ observedPeriod'[d] = step[d] + 1
             /\ step'[d] = step[d]
             /\ CandidateMap(d)' = CandidateMap(d)
             /\ step[d] = 0 => CandidateKeys(d)' = {}
    /\ pc[d] = "break"
          => /\ pc'[d] = "done"
             /\ Returned(d)'
             /\ ReturnedErr(d)' = NoErr
             /\ ReturnedPeriod(d)' = observedPeriod[d]
             /\ CallerKeys(d)' = CandidateKeys(d)
             /\ queries'[d] = queries[d]
    /\ pc[d] = "done" => (pc'[d] = "done" /\ queries'[d] = queries[d])

C3_EarlyTermination == [][\A d \in Detectors : C3_Step(d)]_vars

\* the ingress detector has returned after a step without data that followed
\* steps with data, and its map still holds a key
C3_Witness ==
    /\ ingReturn.returned /\ ingReturn.err = NoErr
    /\ queries["ing"] >= 2
    /\ DataRows(outcomes[queries["ing"]].rows) = {}
    /\ ingReturn.observedPeriod = queries["ing"]
    /\ IngressKeys(IngressMap) # {}

(* C4: on a successful return observedPeriod is the number of steps whose
   response named an entity; a step without data is not counted. *)
C4_CountsDataSteps ==
    \A d \in Detectors :
        (Returned(d) /\ ReturnedErr(d) = NoErr) => ReturnedPeriod(d) = StepsWithData(d)

(* C4 as amended: on a successful return observedPeriod is the number of
   steps whose response named an entity, plus one when the run ended on a
   step whose response named none: that last step is counted too. *)
C4_CountsQueriedSteps ==
    \A d \in Detectors :
        (Returned(d) /\ ReturnedErr(d) = NoErr)
        => ReturnedPeriod(d) =
              StepsWithData(d)
              + (IF queries[d] >= 1 /\ DataRows(outcomes[queries[d]].rows) = {}
                 THEN 1 ELSE 0)

\* a run of two steps with data ended by a third step without: period 3
C4_Witness ==
    \E d \in Detectors :
        /\ Returned(d) /\ ReturnedErr(d) = NoErr
        /\ queries[d] = 3
        /\ StepsWithData(d) = 2
        /\ ReturnedPeriod(d) = 3

(* C5: the returned observedPeriod is at most maxSteps, and equals maxSteps
   when every step returned data and no query failed (stated for
   maxSteps >= 0). *)
C5_PeriodWithinBudget ==
    \A d \in Detectors :
        (Returned(d) /\ maxSteps >= 0)
        => /\ ReturnedPeriod(d) <= maxSteps
           /\ ( /\ ReturnedErr(d) = NoErr
                /\ \A j \in 1..queries[d] : DataRows(outcomes[j].rows) # {} )
              => ReturnedPeriod(d) = maxSteps

(* C6: a query error at any step ends the run at once: it is the last query
   of the run, the detector returns that error and observedPeriod 0. *)
C6_ErrorAborts ==
    \A d \in Detectors : \A j \in 1..queries[d] :
        outcomes[j].err # NoErr
        => /\ j = queries[d]
           /\ pc[d] = "done"
           /\ Returned(d)
           /\ ReturnedErr(d) = outcomes[j].err
           /\ ReturnedPeriod(d) = 0

\* the third query of the pod detector failed after two steps with data
C6_Witness ==
    /\ promPodsMap.returned
    /\ promPodsMap.err = "timeout"
    /\ queries["res"] = 3
    /\ observedPeriod["res"] = 2
    /\ promPodsMap.observedPeriod = 0

(* C7: when a run ends with an error the candidate map the caller sees is
   empty, at both depths. *)
C7_ErrorLeavesNoCandidates ==
    \A d \in Detectors :
        (Returned(d) /\ ReturnedErr(d) # NoErr) => CallerKeys(d) = {}

(* C8: a step i > 0 never increases the number of key tuples in the
   candidate map. *)
C8_MonotonicShrink ==
    [][\A d \in Detectors :
         (pc[d] = "process" /\ step[d] > 0)
         => Cardinality(CandidateKeys(d)') <= Cardinality(CandidateKeys(d))]_vars

\* a narrowing step of each kind has happened: the pod detector lost a key
\* of its seed, or the ingress detector set a namespace to nil
C8_Witness ==
    \/ /\ step["res"] >= 2
       /\ ResourceKeys(resultMap) # SampleKeys("res", outcomes[1].rows)
       /\ ResourceKeys(resultMap) # {}
    \/ /\ step["ing"] >= 2
       /\ \E ns \in DOMAIN IngressMap.kv : IngressMap.kv[ns].isNil
       /\ IngressKeys(IngressMap) # {}

(* C9: a step i > 0 whose sample set equals the key tuples of the candidate
   map leaves the candidate map unchanged at every level. *)
C9_Idempotent ==
    [][\A d \in Detectors :
         ( /\ pc[d] = "process"
           /\ step[d] > 0
           /\ SampleKeys(d, result[d]) = CandidateKeys(d) )
         => CandidateMap(d)' = CandidateMap(d)]_vars

\* the same for the key tuples alone
C9_KeysUnchanged ==
    [][\A d \in Detectors :
         ( /\ pc[d] = "process"
           /\ step[d] > 0
           /\ SampleKeys(d, result[d]) = CandidateKeys(d) )
         => CandidateKeys(d)' = CandidateKeys(d)]_vars

(* C10: on the same responses the four-label detector and the two-label
   detector, each tuple flattened to one name, return the same entities,
   the same observedPeriod and the same error. *)
EntitiesOf(d) == {e \in Metrics : KeyOf(d, e) \in CallerKeys(d)}

C10_DepthsAgree ==
    (promPodsMap.returned /\ ingReturn.returned)
    => /\ EntitiesOf("ing") = EntitiesOf("res")
       /\ ingReturn.observedPeriod = promPodsMap.observedPeriod
       /\ ingReturn.err = promPodsMap.err

(* C11: the key parsed from a whole row lists the values in the caller's
   order, (namespace, resource) or (namespace, ingress, host, path), in
   whatever order the labels stand inside the braces. *)
C11_KeyInCanonicalOrder ==
    stepParse.done
    => \A i \in 1..Len(stepLines.rows) :
          stepLines.rows[i].defect = "none"
          => /\ ~stepParse.rows[i].skip
             /\ ~stepParse.rows[i].panic
             /\ stepParse.rows[i].key = KeyOf(stepLines.d, stepLines.rows[i].e)

\* the same for the four-label rows alone, parsed by label name
C11_ByNameAtDepthFour ==
    (stepParse.done /\ stepLines.d = "ing")
    => \A i \in 1..Len(stepLines.rows) :
          stepLines.rows[i].defect = "none"
          => /\ ~stepParse.rows[i].skip
             /\ ~stepParse.rows[i].panic
             /\ stepParse.rows[i].key = KeyOf("ing", stepLines.rows[i].e)

(* C12: a malformed or truncated line is skipped: the parsing does not
   crash, the line gives no key, and the step's map holds exactly the keys
   of the other, whole rows. *)
C12_MalformedLineSkipped ==
    ( /\ stepParse.done
      /\ \E i \in 1..Len(stepLines.rows) :
            stepLines.rows[i].defect \in Defects \ {"none"} )
    => /\ ~stepParse.temp.panic
       /\ (IF stepLines.d = "res" THEN ResourceKeys(stepParse.temp.m)
           ELSE IngressKeys(stepParse.temp.m))
          = {KeyOf(stepLines.d, stepLines.rows[i].e) :
               i \in {j \in 1..Len(stepLines.rows) : stepLines.rows[j].defect = "none"}}

(* C13: every query context is released once its response or error has been
   obtained: between steps and after the return no context is held. *)
C13_ContextsReleased ==
    \A d \in Detectors : pc[d] \in {"loop", "break", "done"} => held[d] = {}

(* C14: the queries of a run are issued one at a time in step order: the
   n-th query asks for the offset of n hours, no offset is asked twice, and
   a query starts only when every earlier response has been processed. *)
C14_SequentialQueries ==
    [][\A d \in Detectors :
         /\ queries'[d] # queries[d]
               => /\ pc[d] = "loop"
                  /\ step[d] = queries[d]
                  /\ queries'[d] = queries[d] + 1
                  /\ offsets'[d] = Append(offsets[d], queries[d])
         /\ \A i, j \in 1..Len(offsets'[d]) :
               i # j => offsets'[d][i] # offsets'[d][j]]_vars

\* the ingress detector has asked for the offsets 0, 1 and 2 in this order
C14_Witness ==
    /\ offsets["ing"] = <<0, 1, 2>>
    /\ step["ing"] = 3

(* C15: a run makes at most max(maxSteps, 0) queries, and exactly maxSteps
   when it returned without error and every response named an entity. *)
C15_QueriesWithinBudget ==
    \A d \in Detectors :
        /\ queries[d] <= (IF maxSteps > 0 THEN maxSteps ELSE 0)
        /\ ( /\ Returned(d) /\ ReturnedErr(d) = NoErr
             /\ maxSteps >= 0
             /\ \A j \in 1..queries[d] : DataRows(outcomes[j].rows) # {} )
           => queries[d] = maxSteps

(* C16: whatever lookups fail for the entities detected, main does not
   crash: it goes on to the summary of the pod report and to the summary of
   the ingress report. *)
C16_LookupFailureNeverCrashes ==
    /\ mainPc # "panic"
    /\ mainPc = "exit" => (podSummary.emitted /\ ingSummary.emitted)

\* number of pods the lookups of a report added to its totals
RECURSIVE AddedBy(_, _)
AddedBy(log, report) ==
    IF log = <<>> THEN 0
    ELSE (IF Head(log).report = report THEN Head(log).added ELSE 0)
         + AddedBy(Tail(log), report)

(* C17: a routing key whose backend lookup or selector lookup failed is
   skipped: no pod is counted and nothing is added to the totals for it. *)
C17_FailedKeySkipped ==
    \A i \in 1..Len(lookups) :
        ( /\ lookups[i].report = "ingresses"
          /\ (lookups[i].backendErr \/ lookups[i].selectorErr) )
        => lookups[i].added = 0

(* C18: the pod count of each summary is the number of pods whose CPU and
   memory were added to its totals. *)
C18_CountMatchesTotals ==
    /\ podSummary.emitted => podSummary.count = AddedBy(lookups, "pods")
    /\ ingSummary.emitted => ingSummary.count = AddedBy(lookups, "ingresses")

\* the same for the summary of the ingress report alone
C18_IngressReportOnly ==
    ingSummary.emitted => ingSummary.count = AddedBy(lookups, "ingresses")

(* C19: once the caller has asked for the run to stop, the detector issues
   no further query. *)
C19_CancelStopsQueries ==
    [][cancelRequested => queries' = queries]_vars

(* C20: in any interleaving of the two runs, the map, observedPeriod and
   error each run returns are a result that run produces alone on the same
   responses (the server lists the samples of a response in any order). *)
CallerMap(d) == IF d = "res" THEN promPodsMap.map ELSE IngressMap

\* what the parsing of a response can give, over the orders of its samples:
\* the number of lines and the map of the step
RowSets == {o.rows : o \in Outcomes}

ResourceSamplesOf ==
    [S \in RowSets |->
        {[lines |-> Len(ResourceLinesOf[v].strs), tempMap |-> ResourceLinesOf[v].temp.m] :
            v \in Orderings(S)}] @@ <<>>

IngressSamplesOf ==
    [S \in RowSets |->
        {[lines |-> Len(IngressLinesOf[v].strs), tempMap |-> IngressLinesOf[v].temp.m] :
            v \in Orderings(S)}] @@ <<>>

\* the candidate map after one more step, from the map m after n steps
AloneStep2(n, m, tempMap) ==
    IF n = 0 THEN tempMap ELSE NarrowResources(m, tempMap)

AloneStep4(n, m, tempMap) ==
    IF n = 0 THEN tempMap
    ELSE IF m.isNil THEN NarrowIngresses(tempMap, tempMap)
    ELSE NarrowIngresses(m, tempMap)

\* the results of a run of detector d made alone on the responses recorded
\* in outcomes, from step n on with the candidate map m
RECURSIVE AloneResults(_, _, _)
AloneResults(d, n, m) ==
    IF n >= maxSteps
    THEN {[map |-> m, observedPeriod |-> n, err |-> NoErr]}
    ELSE IF outcomes[n + 1].err # NoErr
    THEN {[map |-> IF d = "res" THEN EmptyMap ELSE m,
           observedPeriod |-> 0, err |-> outcomes[n + 1].err]}
    ELSE UNION {
           IF s.lines < 2
           THEN {[map |-> m, observedPeriod |-> n + 1, err |-> NoErr]}
           ELSE AloneResults(d, n + 1,
                             IF d = "res" THEN AloneStep2(n, m, s.tempMap)
                             ELSE AloneStep4(n, m, s.tempMap))
           : s \in (IF d = "res" THEN ResourceSamplesOf[outcomes[n + 1].rows]
                    ELSE IngressSamplesOf[outcomes[n + 1].rows])}

C20_RunsIndependent ==
    [][\A d \in Detectors :
         (~Returned(d) /\ Returned(d)')
         => [map |-> CallerMap(d)', observedPeriod |-> ReturnedPeriod(d)',
             err |-> ReturnedErr(d)']
            \in AloneResults(d, 0, IF d = "res" THEN EmptyMap ELSE NilMap)']_vars

\* the ingress run has returned a narrowed map that holds a key while the
\* pod run, started before it, is still processing its second response
C20_Witness ==
    /\ ingReturn.returned /\ ingReturn.err = NoErr
    /\ queries["ing"] = 2
    /\ IngressKeys(IngressMap) # {}
    /\ IngressKeys(IngressMap) # SampleKeys("ing", outcomes[1].rows)
    /\ pc["res"] = "process"
    /\ step["res"] = 1

(* C21: warnings never change the outcome: a run in which some response
   carried warnings returns a map, an observedPeriod and an error that the
   run produces on the same responses and errors without any warning. *)
C21_WarningsChangeNothing ==
    [][\A d \in Detectors :
         ( /\ ~Returned(d) /\ Returned(d)'
           /\ \E j \in 1..queries'[d] : outcomes'[j].warnings )
         => [map |-> CallerMap(d)', observedPeriod |-> ReturnedPeriod(d)',
             err |-> ReturnedErr(d)']
            \in AloneResults(d, 0, IF d = "res" THEN EmptyMap ELSE NilMap)']_vars

\* a run of two steps whose first response carried warnings has returned a
\* narrowed map that holds a key
C21_Witness ==
    \E d \in Detectors :
        /\ Returned(d) /\ ReturnedErr(d) = NoErr
        /\ queries[d] = 2
        /\ outcomes[1].warnings
        /\ ReturnedPeriod(d) = 2
        /\ CallerKeys(d) # {}
        /\ CallerKeys(d) # SampleKeys(d, outcomes[1].rows)

(* C23: the run stops early at a step only if the response of that step
   carries no entity row; a response that carries exactly one entity row is
   processed: the loop does not break on it, and at step 0 it seeds the
   candidate map with its key. *)
C23_BreakOnlyWithoutRows ==
    \A d \in Detectors :
        /\ pc[d] = "break" => DataRows(outcomes[queries[d]].rows) = {}
        /\ ( /\ queries[d] = 1
             /\ pc[d] \in {"loop", "break", "done"}
             /\ outcomes[1].err = NoErr
             /\ Cardinality(DataRows(outcomes[1].rows)) = 1 )
           => ( /\ pc[d] # "break"
                /\ CandidateKeys(d) = SampleKeys(d, outcomes[1].rows) )

(* C24: adding a row's tuple to the step's map makes it a member and keeps
   every earlier member, also when its namespace, ingress or host is already
   there: after a step of whole rows in the printed label order the sample
   set holds one key per parsed row, at depth 4 as at depth 2. *)
C24_OneKeyPerRow ==
    ( /\ stepParse.done
      /\ \A i \in 1..Len(stepLines.rows) :
            /\ stepLines.rows[i].defect = "none"
            /\ stepLines.rows[i].order = Sorted(stepLines.d) )
    => /\ ~stepParse.temp.panic
       /\ (IF stepLines.d = "res" THEN ResourceKeys(stepParse.temp.m)
           ELSE IngressKeys(stepParse.temp.m))
          = {KeyOf(stepLines.d, stepLines.rows[i].e) : i \in 1..Len(stepLines.rows)}

\* the same for the two-label rows alone, added by MapAdd
C24_MapAddKeepsRows ==
    ( /\ stepParse.done /\ stepLines.d = "res"
      /\ \A i \in 1..Len(stepLines.rows) :
            /\ stepLines.rows[i].defect = "none"
            /\ stepLines.rows[i].order = Sorted("res") )
    => /\ ~stepParse.temp.panic
       /\ ResourceKeys(stepParse.temp.m)
          = {KeyOf("res", stepLines.rows[i].e) : i \in 1..Len(stepLines.rows)}

\* a namespace of the two-level map without an element beneath it
EmptyResourceBranch(m) == \E ns \in DOMAIN m : DOMAIN m[ns] = {}

\* a namespace, ingress or host of the four-level map without a tuple
\* beneath it (a nil namespace holds none)
EmptyIngressBranch(M) ==
    /\ ~M.isNil
    /\ \E ns \in DOMAIN M.kv :
         \/ M.kv[ns].isNil
         \/ DOMAIN M.kv[ns].kv = {}
         \/ \E ing \in DOMAIN M.kv[ns].kv :
              \/ DOMAIN M.kv[ns].kv[ing] = {}
              \/ \E host \in DOMAIN M.kv[ns].kv[ing] :
                   DOMAIN M.kv[ns].kv[ing][host] = {}

(* C25: after any narrowing step the candidate map holds no empty branch:
   every namespace, ingress and host key that remains has at least one key
   tuple beneath it. *)
C25_NoEmptyBranch ==
    \A d \in Detectors :
        (pc[d] = "loop" /\ step[d] >= 2)
        => IF d = "res" THEN ~EmptyResourceBranch(resultMap)
           ELSE ~EmptyIngressBranch(IngressMap)

\* the same for the four-level map alone
C25_NoEmptyIngressBranch ==
    (pc["ing"] = "loop" /\ step["ing"] >= 2) => ~EmptyIngressBranch(IngressMap)

(* C27: the candidate map is assigned from a sample only at step 0: at no
   step > 0 is a tuple added to it or the whole map replaced by that step's
   sample, also when the map is empty or nil after step 0. *)
C27_SeededOnlyAtStepZero ==
    [][\A d \in Detectors :
         (pc[d] = "process" /\ step[d] > 0)
         => CandidateKeys(d)' \subseteq CandidateKeys(d)]_vars

\* the same for the two-level map alone, seeded by `if step == 0`
C27_ResourcesSeededOnce ==
    [][(pc["res"] = "process" /\ step["res"] > 0)
         => ResourceKeys(resultMap)' \subseteq ResourceKeys(resultMap)]_vars

(* C22: a response line whose label body is exactly {} gives no key to the
   step's sample set and no crash, and the other lines of the response are
   still parsed: the step's map holds exactly the keys of the other rows. *)
C22_EmptyResultSkipped ==
    ( /\ stepParse.done
      /\ \E i \in 1..Len(stepLines.rows) : stepLines.rows[i].defect = "braces" )
    => /\ \A i \in 1..Len(stepLines.rows) :
            stepLines.rows[i].defect = "braces"
            => /\ stepParse.rows[i].skip
               /\ ~stepParse.rows[i].panic
               /\ stepParse.rows[i].key = <<>>
       /\ ~stepParse.temp.panic
       /\ (IF stepLines.d = "res" THEN ResourceKeys(stepParse.temp.m)
           ELSE IngressKeys(stepParse.temp.m))
          = {KeyOf(stepLines.d, stepLines.rows[i].e) :
               i \in {j \in 1..Len(stepLines.rows) : stepLines.rows[j].defect = "none"}}

\* a step whose first line is {} has been parsed and its map holds the key
\* of the row that follows
C22_Witness ==
    /\ stepParse.done
    /\ stepLines.rows[1].defect = "braces"
    /\ stepLines.rows[2].defect = "none"
    /\ ~stepParse.temp.panic
    /\ (IF stepLines.d = "res" THEN ResourceKeys(stepParse.temp.m)
        ELSE IngressKeys(stepParse.temp.m))
       = {KeyOf(stepLines.d, stepLines.rows[2].e)}

(* C26: the namespace count printed in the pod summary equals the number
   of namespaces that hold at least one pod counted as unused in that
   summary. *)
C26_NamespacesWithCountedPods ==
    podSummary.emitted
    => podSummary.namespaces
       = Cardinality({k[1] : k \in ResourceKeys(promPodsMap.map)})

(* C28: the map a narrowing step leaves is the same for every order in
   which the loops visit the entries, also when entries are deleted or set
   to nil during the iteration: once the loops have ended the map is the one
   determined by the map before the step and the step's sample alone, and
   observedPeriod is the number of the steps done. *)
C28_VisitOrderFree ==
    /\ (visit.d = "res" /\ visit.level = "done")
          => /\ resultMap = NarrowResources(visit.from, visit.temp)
             /\ observedPeriod["res"] = step["res"]
    /\ (visit.d = "ing" /\ visit.level = "done")
          => /\ IngressMap = NarrowIngresses(visit.from, visit.temp)
             /\ observedPeriod["ing"] = step["ing"]

\* the loops over a two-level map of two namespaces or more have ended,
\* with an element deleted from one namespace while another keeps its own
C28_WitnessResources ==
    /\ visit.d = "res"
    /\ visit.level = "done"
    /\ Cardinality(DOMAIN visit.from) >= 2
    /\ ResourceKeys(resultMap) # ResourceKeys(visit.from)
    /\ ResourceKeys(resultMap) # {}

\* the loops over a four-level map of two namespaces or more have ended,
\* with one namespace set to nil during the range and a tuple left
C28_Witness ==
    /\ visit.d = "ing"
    /\ visit.level = "done"
    /\ Cardinality(DOMAIN visit.from.kv) >= 2
    /\ \E ns \in DOMAIN IngressMap.kv :
         IngressMap.kv[ns].isNil /\ ~visit.from.kv[ns].isNil
    /\ IngressKeys(IngressMap) # {}

\* the listings of GetKClient so far that failed
FailedTries == {i \in 1..Len(attempts) : attempts[i].err # NoErr}

(* C29: GetKClient lists the nodes at most 3 times and stops at the first
   listing that succeeds; once a listing has succeeded it returns the client
   with a nil error, and when three listings have failed the process exits
   instead of returning a client. *)
C29_BoundedConnectionTest ==
    /\ Len(attempts) <= 3
    /\ \A i \in 1..Len(attempts) : i < Len(attempts) => attempts[i].err # NoErr
    /\ bootPc \in {"run", "query"}
          => /\ attempts # <<>>
             /\ attempts[Len(attempts)].err = NoErr
             /\ clientErr = NoErr
    /\ (attempts # <<>> /\ attempts[Len(attempts)].err = NoErr /\ bootPc # "connect")
          => bootPc \in {"run", "query"}
    /\ (Cardinality(FailedTries) = 3 /\ bootPc # "connect") => bootPc = "exit"

\* the client was returned after two failed listings and a third that
\* succeeded
C29_Witness ==
    /\ bootPc = "run"
    /\ Len(attempts) = 3
    /\ FailedTries = {1, 2}
    /\ clientErr = NoErr

\* the process has exited after three failed listings
C29_WitnessExit ==
    /\ bootPc = "exit"
    /\ FailedTries = {1, 2, 3}

\* RFC 3986, section 3: a URI begins with a scheme, a letter followed by
\* letters, digits, "+", "-" or ".", and a colon
WellFormedURI(text) ==
    \E k \in 2..Len(text) :
        /\ text[k] = ":"
        /\ text[1] \in Letters
        /\ \A j \in 2..(k - 1) : text[j] \in Letters \cup Digits \cup {"+", "-", "."}

(* C30: if the --prom-uri flag is not a well-formed URI, the process exits
   before any cluster credential is loaded, any cluster connection is tried
   or any metrics query is issued. *)
C30_MalformedFlagExitsFirst ==
    ~WellFormedURI(promAddr)
    => /\ bootPc \in {"idle", "flags", "exit"}
       /\ attempts = <<>>
       /\ pc["res"] = "wait"

\* the same for the flags that url.ParseRequestURI rejects
C30_RejectedFlagExitsFirst ==
    ParseRequestURI(promAddr) # NoErr
    => /\ bootPc \in {"idle", "flags", "exit"}
       /\ attempts = <<>>
       /\ pc["res"] = "wait"

\* the places <<rule, path>> of the ingress that match the request: the
\* rule's host is the requested host and the path is the requested one or ""
MatchingPaths ==
    LET rules == kubeCall.ingressStruct.Rules
    IN  {p \in (1..Len(rules)) \X (1..MaxPaths) :
           /\ rules[p[1]].Host = kubeCall.host
           /\ p[2] <= Len(rules[p[1]].HTTP.Paths)
           /\ rules[p[1]].HTTP.Paths[p[2]].Path \in {kubeCall.path, <<>>}}

\* the last of them in rule order
LastMatchingPath ==
    CHOOSE p \in MatchingPaths :
        \A q \in MatchingPaths : q[1] < p[1] \/ (q[1] = p[1] /\ q[2] <= p[2])

(* C31: GetIngressBackend on a fetched ingress returns the error "not found"
   exactly when no rule of the requested host has a path that equals the
   requested path or is empty; otherwise it returns a nil error and the
   backend of the last matching path in rule order. *)
C31_BackendOfLastMatch ==
    (kubeCall.fn = "GetIngressBackend" /\ kubeRet.done
       /\ kubeCall.ingressStruct.err = NoErr)
    => /\ ~kubeRet.panic
       /\ (kubeRet.err = "not found") <=> (MatchingPaths = {})
       /\ MatchingPaths # {}
             => /\ kubeRet.err = NoErr
                /\ LET p == LastMatchingPath
                   IN  kubeRet.backend
                       = kubeCall.ingressStruct.Rules[p[1]].HTTP.Paths[p[2]].Backend

\* the same for the ingresses whose rules of the requested host all have an
\* HTTP section
C31_WithHTTPSections ==
    (kubeCall.fn = "GetIngressBackend" /\ kubeRet.done
       /\ kubeCall.ingressStruct.err = NoErr
       /\ \A i \in 1..Len(kubeCall.ingressStruct.Rules) :
             kubeCall.ingressStruct.Rules[i].Host = kubeCall.host
             => ~kubeCall.ingressStruct.Rules[i].HTTP.isNil)
    => /\ ~kubeRet.panic
       /\ (kubeRet.err = "not found") <=> (MatchingPaths = {})
       /\ MatchingPaths # {}
             => /\ kubeRet.err = NoErr
                /\ LET p == LastMatchingPath
                   IN  kubeRet.backend
                       = kubeCall.ingressStruct.Rules[p[1]].HTTP.Paths[p[2]].Backend

\* what a container of the pod requests: CPU in milli-units (a core is
\* 1000), memory in bytes (a Mi is 1048576), 0 without a request
RequestedCpuMilli(c) ==
    IF "cpu" \notin DOMAIN c.Requests THEN 0
    ELSE IF c.Requests["cpu"].suffix = "m" THEN c.Requests["cpu"].n
    ELSE 1000 * c.Requests["cpu"].n

RequestedMemBytes(c) ==
    IF "memory" \notin DOMAIN c.Requests THEN 0
    ELSE IF c.Requests["memory"].suffix = "Mi" THEN 1048576 * c.Requests["memory"].n
    ELSE c.Requests["memory"].n

(* C32: GetPodRequests returns the sum over all containers of the pod of
   the CPU request in milli-units and of the memory request in bytes, a
   container without a request counting 0, with a nil error; when the pod
   cannot be fetched it returns (0, 0, error). *)
C32_SumsOfRequests ==
    (kubeCall.fn = "GetPodRequests" /\ kubeRet.done)
    => LET cs == kubeCall.pod.Containers
       IN  IF kubeCall.pod.err # NoErr
           THEN kubeRet.cpu = 0 /\ kubeRet.mem = 0 /\ kubeRet.err = kubeCall.pod.err
           ELSE /\ kubeRet.err = NoErr
                /\ kubeRet.cpu
                     = SumOver([i \in 1..Len(cs) |-> RequestedCpuMilli(cs[i])], 1..Len(cs))
                /\ kubeRet.mem
                     = SumOver([i \in 1..Len(cs) |-> RequestedMemBytes(cs[i])], 1..Len(cs))

\* the requests of a pod of two containers have been returned: one
\* container asks for a core and no memory, the other for 1Mi and no CPU
C32_Witness ==
    /\ kubeCall.fn = "GetPodRequests" /\ kubeRet.done
    /\ Len(kubeCall.pod.Containers) = 2
    /\ DOMAIN kubeCall.pod.Containers[1].Requests = {"cpu"}
    /\ DOMAIN kubeCall.pod.Containers[2].Requests = {"memory"}
    /\ kubeRet.cpu = 1000
    /\ kubeRet.mem = 1048576
    /\ kubeRet.err = NoErr

\* the pod could not be fetched
C32_WitnessError ==
    /\ kubeCall.fn = "GetPodRequests" /\ kubeRet.done
    /\ kubeRet.err # NoErr

====
